---------------------------- MODULE Spec2Model ----------------------------
(***************************************************************************)
(* A model of the research-paper summarizer (src/paper_summarizer.py and   *)
(* its HTTP front end src/app.py).                                         *)
(*                                                                         *)
(* Strings are sequences of Unicode code points, so that sorting, lower-   *)
(* casing, stripping, slicing and joining are computed as Python computes  *)
(* them.  A paper text is a sequence of lines (joined by "\n"); each line  *)
(* is one of a fixed vocabulary of concrete sentences and headings, and    *)
(* the regular-expression families of the extractors are modelled by what  *)
(* re.findall returns on those lines.                                      *)
(***************************************************************************)
EXTENDS Integers, Sequences, FiniteSets, TLC

VARIABLES
    pc,          \* position of the one request the instance is serving
    nlp,         \* PaperSummarizer.nlp: "unset", "loaded" or "None"
    punkt,       \* whether the sentence-tokenizer data is usable in this process
    hashseed,    \* the process's string-hash seed (decides set iteration order)
    request,     \* summarize_paper's arguments
    input_type,  \* summarize_paper's local input_type (after 'auto' is resolved)
    text,        \* summarize_paper's local text
    paper_metadata, \* summarize_paper's local paper_metadata
    attempt,     \* _fetch_from_arxiv: the loop variable
    slept,       \* _fetch_from_arxiv: the delays passed to time.sleep, in order
    io,          \* acquisition steps executed for this request, in order
    ran,         \* extractor / synthesizer steps executed for this request, in order
    outcome,     \* what summarize_paper gave its caller
    first,       \* the outcome of the previous call with the same arguments
    calls,       \* the invocations running side by side in the web process, by caller
    uploads      \* the upload folder: file name -> file content

vars == <<pc, nlp, punkt, hashseed, request, input_type, text, paper_metadata,
          attempt, slept, io, ran, outcome, first, calls, uploads>>

-----------------------------------------------------------------------------
(* Bounds of the model *)

\* longest text built freely from the line vocabulary
MaxShort == 2
\* largest number of repeated lines of one kind appended to a text
MaxBulk == 21

\* lines in a text that is longer than the slice the TL;DR is made from
LongBulk == 40

-----------------------------------------------------------------------------
(* Strings *)

RECURSIVE Flatten(_)
Flatten(ss) == IF ss = <<>> THEN <<>> ELSE Head(ss) \o Flatten(Tail(ss))

RECURSIVE Dec(_)
\* str(i) for a natural number i
Dec(i) == IF i < 10 THEN <<48 + i>> ELSE Dec(i \div 10) \o <<48 + (i % 10)>>

\* Python's str comparison: lexicographic by code point, a proper prefix first
RECURSIVE StrLess(_, _)
StrLess(a, b) ==
    IF b = <<>> THEN FALSE
    ELSE IF a = <<>> THEN TRUE
    ELSE IF a[1] # b[1] THEN a[1] < b[1]
    ELSE StrLess(Tail(a), Tail(b))

IsSpace(c) == c \in {32, 9, 10, 11, 12, 13}
IsDigit(c) == c >= 48 /\ c <= 57

\* str.lower() on ASCII
Lower(s) == [j \in DOMAIN s |-> IF s[j] >= 65 /\ s[j] <= 90 THEN s[j] + 32 ELSE s[j]]

RECURSIVE LStrip(_)
LStrip(s) == IF s # <<>> /\ IsSpace(s[1]) THEN LStrip(Tail(s)) ELSE s
RECURSIVE RStrip(_)
RStrip(s) == IF s # <<>> /\ IsSpace(s[Len(s)]) THEN RStrip(SubSeq(s, 1, Len(s) - 1)) ELSE s
\* str.strip()
Strip(s) == RStrip(LStrip(s))

\* s[:n]
Take(s, n) == SubSeq(s, 1, IF Len(s) < n THEN Len(s) ELSE n)

RECURSIVE JoinWith(_, _)
\* sep.join(ss)
JoinWith(sep, ss) ==
    IF ss = <<>> THEN <<>>
    ELSE IF Len(ss) = 1 THEN ss[1]
    ELSE ss[1] \o sep \o JoinWith(sep, Tail(ss))

\* whether s occurs in t as a contiguous substring
Contains(t, s) ==
    \/ s = <<>>
    \/ \E k \in 1..(Len(t) - Len(s) + 1) :
          t[k] = s[1] /\ SubSeq(t, k, k + Len(s) - 1) = s

-----------------------------------------------------------------------------
(* String constants: the sentinel, the text of every line of the           *)
(* vocabulary, and what the patterns capture from those lines              *)

NotSpecified == <<78, 111, 116, 32, 115, 112, 101, 99, 105, 102, 105, 101, 100>>  \* "Not specified"

\* the texts of the lines the model's papers are made of
T ==
    [
     \* "It runs fast."
     plain |-> <<73, 116, 32, 114, 117, 110, 115, 32, 102, 97, 115, 116, 46>>,
     \* "See ["
     cnum_pre |-> <<83, 101, 101, 32, 91>>,
     \* "]."
     cnum_post |-> <<93, 46>>,
     \* "See (Smith et al., 2020)."
     cetal |-> <<83, 101, 101, 32, 40, 83, 109, 105, 116, 104, 32, 101, 116, 32, 97, 108, 46, 44, 32, 50, 48, 50, 48, 41, 46>>,
     \* "See (Smith, 2020)."
     cauth |-> <<83, 101, 101, 32, 40, 83, 109, 105, 116, 104, 44, 32, 50, 48, 50, 48, 41, 46>>,
     \* "Let $"
     eqin_pre |-> <<76, 101, 116, 32, 36>>,
     \* "$ hold."
     eqin_post |-> <<36, 32, 104, 111, 108, 100, 46>>,
     \* "$$y$$"
     eqdisp |-> <<36, 36, 121, 36, 36>>,
     \* "\begin{equation}z\end{equation}"
     eqenv |-> <<92, 98, 101, 103, 105, 110, 123, 101, 113, 117, 97, 116, 105, 111, 110, 125, 122, 92, 101, 110, 100, 123, 101, 113, 117, 97, 116, 105, 111, 110, 125>>,
     \* "The accuracy: 0.9 here."
     mkv |-> <<84, 104, 101, 32, 97, 99, 99, 117, 114, 97, 99, 121, 58, 32, 48, 46, 57, 32, 104, 101, 114, 101, 46>>,
     \* "It has 89.2% F1 here."
     mvm |-> <<73, 116, 32, 104, 97, 115, 32, 56, 57, 46, 50, 37, 32, 70, 49, 32, 104, 101, 114, 101, 46>>,
     \* "It achieves 71% BLEU here."
     mach |-> <<73, 116, 32, 97, 99, 104, 105, 101, 118, 101, 115, 32, 55, 49, 37, 32, 66, 76, 69, 85, 32, 104, 101, 114, 101, 46>>,
     \* "The Best score 5 here."
     msota |-> <<84, 104, 101, 32, 66, 101, 115, 116, 32, 115, 99, 111, 114, 101, 32, 53, 32, 104, 101, 114, 101, 46>>,
     \* "We propose fast - small."
     prop |-> <<87, 101, 32, 112, 114, 111, 112, 111, 115, 101, 32, 102, 97, 115, 116, 32, 45, 32, 115, 109, 97, 108, 108, 46>>,
     \* "We present m"
     pres_pre |-> <<87, 101, 32, 112, 114, 101, 115, 101, 110, 116, 32, 109>>,
     \* "Data from imagenet here."
     dkey |-> <<68, 97, 116, 97, 32, 102, 114, 111, 109, 32, 105, 109, 97, 103, 101, 110, 101, 116, 32, 104, 101, 114, 101, 46>>,
     \* "Dataset: Foo."
     dkv |-> <<68, 97, 116, 97, 115, 101, 116, 58, 32, 70, 111, 111, 46>>,
     \* "Baseline: Bert."
     bkv |-> <<66, 97, 115, 101, 108, 105, 110, 101, 58, 32, 66, 101, 114, 116, 46>>,
     \* "It is compared to Gpt."
     bcmp |-> <<73, 116, 32, 105, 115, 32, 99, 111, 109, 112, 97, 114, 101, 100, 32, 116, 111, 32, 71, 112, 116, 46>>,
     \* "However it is slow."
     lhow |-> <<72, 111, 119, 101, 118, 101, 114, 32, 105, 116, 32, 105, 115, 32, 115, 108, 111, 119, 46>>,
     \* " is a model."
     gisa_post |-> <<32, 105, 115, 32, 97, 32, 109, 111, 100, 101, 108, 46>>,
     \* ": model."
     gcol_post |-> <<58, 32, 109, 111, 100, 101, 108, 46>>,
     \* "Abstract"
     habs |-> <<65, 98, 115, 116, 114, 97, 99, 116>>,
     \* "Introduction"
     hint |-> <<73, 110, 116, 114, 111, 100, 117, 99, 116, 105, 111, 110>>,
     \* "Method"
     hmet |-> <<77, 101, 116, 104, 111, 100>>,
     \* "Evaluation"
     heva |-> <<69, 118, 97, 108, 117, 97, 116, 105, 111, 110>>,
     \* "Conclusion"
     hcon |-> <<67, 111, 110, 99, 108, 117, 115, 105, 111, 110>>,
     \* "Limitation"
     hlim |-> <<76, 105, 109, 105, 116, 97, 116, 105, 111, 110>>,
     \* "References"
     href |-> <<82, 101, 102, 101, 114, 101, 110, 99, 101, 115>>,
     \* "."
     pres_post |-> <<46>>,
     \* 'Title: Sparse Nets\n\nAbstract: It runs fast.\n\nNote: Full PDF text could not be retrieved due to connection issues.'
     fallback |-> <<84, 105, 116, 108, 101, 58, 32, 83, 112, 97, 114, 115, 101, 32, 78, 101, 116, 115, 10, 10, 65, 98, 115, 116, 114, 97, 99, 116, 58, 32, 73, 116, 32, 114, 117, 110, 115, 32, 102, 97, 115, 116, 46, 10, 10, 78, 111, 116, 101, 58, 32, 70, 117, 108, 108, 32, 80, 68, 70, 32, 116, 101, 120, 116, 32, 99, 111, 117, 108, 100, 32, 110, 111, 116, 32, 98, 101, 32, 114, 101, 116, 114, 105, 101, 118, 101, 100, 32, 100, 117, 101, 32, 116, 111, 32, 99, 111, 110, 110, 101, 99, 116, 105, 111, 110, 32, 105, 115, 115, 117, 101, 115, 46>>,
     \* 'https://arxiv.org/abs/2301.00001'
     url |-> <<104, 116, 116, 112, 115, 58, 47, 47, 97, 114, 120, 105, 118, 46, 111, 114, 103, 47, 97, 98, 115, 47, 50, 51, 48, 49, 46, 48, 48, 48, 48, 49>>,
     \* 'https://example.org/p'
     web |-> <<104, 116, 116, 112, 115, 58, 47, 47, 101, 120, 97, 109, 112, 108, 101, 46, 111, 114, 103, 47, 112>>,
     \* 'paper.pdf'
     path |-> <<112, 97, 112, 101, 114, 46, 112, 100, 102>>
    ]

\* what the patterns' groups capture from those lines
C ==
    [
     \* "Smith et al., 2020"
     SmithEtAl |-> <<83, 109, 105, 116, 104, 32, 101, 116, 32, 97, 108, 46, 44, 32, 50, 48, 50, 48>>,
     \* "Smith, 2020"
     Smith |-> <<83, 109, 105, 116, 104, 44, 32, 50, 48, 50, 48>>,
     \* "y"
     y |-> <<121>>,
     \* "z"
     z |-> <<122>>,
     \* "accuracy"
     accuracy |-> <<97, 99, 99, 117, 114, 97, 99, 121>>,
     \* "0.9"
     v0_9 |-> <<48, 46, 57>>,
     \* "89.2"
     v89_2 |-> <<56, 57, 46, 50>>,
     \* "F1"
     F1 |-> <<70, 49>>,
     \* "71"
     v71 |-> <<55, 49>>,
     \* "BLEU"
     BLEU |-> <<66, 76, 69, 85>>,
     \* "Best"
     Best |-> <<66, 101, 115, 116>>,
     \* "5"
     v5 |-> <<53>>,
     \* "fast - small"
     fast_small |-> <<102, 97, 115, 116, 32, 45, 32, 115, 109, 97, 108, 108>>,
     \* "m"
     m |-> <<109>>,
     \* "imagenet"
     imagenet |-> <<105, 109, 97, 103, 101, 110, 101, 116>>,
     \* "Foo"
     Foo |-> <<70, 111, 111>>,
     \* "Bert"
     Bert |-> <<66, 101, 114, 116>>,
     \* "Gpt"
     Gpt |-> <<71, 112, 116>>,
     \* " it is slow."
     slow_raw |-> <<32, 105, 116, 32, 105, 115, 32, 115, 108, 111, 119, 46>>,
     \* "model."
     model |-> <<109, 111, 100, 101, 108, 46>>,
     \* "Foo."
     FooDot |-> <<70, 111, 111, 46>>,
     \* "Bert."
     BertDot |-> <<66, 101, 114, 116, 46>>,
     \* "Dataset"
     Dataset |-> <<68, 97, 116, 97, 115, 101, 116>>,
     \* "Baseline"
     Baseline |-> <<66, 97, 115, 101, 108, 105, 110, 101>>,
     \* "T"
     T |-> <<84>>,
     \* 'Title'
     Title |-> <<84, 105, 116, 108, 101>>,
     \* 'Sparse Nets\n\nAbstract: It runs fast.'
     TitleDef |-> <<83, 112, 97, 114, 115, 101, 32, 78, 101, 116, 115, 10, 10, 65, 98, 115, 116, 114, 97, 99, 116, 58, 32, 73, 116, 32, 114, 117, 110, 115, 32, 102, 97, 115, 116, 46>>,
     \* 'Note'
     Note |-> <<78, 111, 116, 101>>,
     \* 'Full PDF text could not be retrieved due to connection issues.'
     NoteDef |-> <<70, 117, 108, 108, 32, 80, 68, 70, 32, 116, 101, 120, 116, 32, 99, 111, 117, 108, 100, 32, 110, 111, 116, 32, 98, 101, 32, 114, 101, 116, 114, 105, 101, 118, 101, 100, 32, 100, 117, 101, 32, 116, 111, 32, 99, 111, 110, 110, 101, 99, 116, 105, 111, 110, 32, 105, 115, 115, 117, 101, 115, 46>>
    ]

NL == <<10>>  \* "\n"
SP == <<32>>  \* " "
COMMA_SP == <<44, 32>>  \* ", "

-----------------------------------------------------------------------------
\* metadata values
V ==
    [
     \* 'Sparse Nets'
     PaperTitle |-> <<83, 112, 97, 114, 115, 101, 32, 78, 101, 116, 115>>,
     \* 'Ann Lee, Bo Ray'
     PaperAuthors |-> <<65, 110, 110, 32, 76, 101, 101, 44, 32, 66, 111, 32, 82, 97, 121>>,
     \* 'ArXiv 2023'
     PaperVenue |-> <<65, 114, 88, 105, 118, 32, 50, 48, 50, 51>>,
     \* 'arXiv:2301.00001'
     PaperId |-> <<97, 114, 88, 105, 118, 58, 50, 51, 48, 49, 46, 48, 48, 48, 48, 49>>,
     \* 'It runs fast.'
     PaperSummary |-> <<73, 116, 32, 114, 117, 110, 115, 32, 102, 97, 115, 116, 46>>,
     \* 'A Page'
     PageTitle |-> <<65, 32, 80, 97, 103, 101>>,
     \* 'My Paper'
     UserTitle |-> <<77, 121, 32, 80, 97, 112, 101, 114>>,
     \* '10.1000/x1'
     UserDoi |-> <<49, 48, 46, 49, 48, 48, 48, 47, 120, 49>>,
     \* '7B'
     UserSizes |-> <<55, 66>>
    ]

-----------------------------------------------------------------------------
(* Texts.  A line is [k |-> kind, i |-> index]; the index varies the       *)
(* number, the citation marker or the term the line mentions.              *)

Headings == {"habs", "hint", "hmet", "heva", "hcon", "hlim", "href"}
IndexedKinds == {"cnum", "eqin", "pres", "gisa", "gcol"}
PlainKinds == {"plain", "cetal", "cauth", "eqdisp", "eqenv", "mkv", "mvm", "mach",
               "msota", "prop", "dkey", "dkv", "bkv", "bcmp", "lhow",
               "fallback", "url", "web", "path"}
Kinds == Headings \cup IndexedKinds \cup PlainKinds

Line(kind, idx) == [k |-> kind, i |-> IF kind \in IndexedKinds THEN idx ELSE 0]

\* the capitalised term "T<letter>" that line i of a glossary kind defines
Term(i) == C.T \o <<96 + i>>

\* The characters of a line
LineText(l) ==
    CASE l.k = "plain"  -> T.plain
      [] l.k = "cnum"   -> T.cnum_pre \o Dec(l.i) \o T.cnum_post
      [] l.k = "cetal"  -> T.cetal
      [] l.k = "cauth"  -> T.cauth
      [] l.k = "eqin"   -> T.eqin_pre \o Dec(l.i) \o T.eqin_post
      [] l.k = "eqdisp" -> T.eqdisp
      [] l.k = "eqenv"  -> T.eqenv
      [] l.k = "mkv"    -> T.mkv
      [] l.k = "mvm"    -> T.mvm
      [] l.k = "mach"   -> T.mach
      [] l.k = "msota"  -> T.msota
      [] l.k = "prop"   -> T.prop
      [] l.k = "pres"   -> T.pres_pre \o Dec(l.i) \o T.pres_post
      [] l.k = "dkey"   -> T.dkey
      [] l.k = "dkv"    -> T.dkv
      [] l.k = "bkv"    -> T.bkv
      [] l.k = "bcmp"   -> T.bcmp
      [] l.k = "lhow"   -> T.lhow
      [] l.k = "gisa"   -> Term(l.i) \o T.gisa_post
      [] l.k = "gcol"   -> Term(l.i) \o T.gcol_post
      [] l.k = "habs"   -> T.habs
      [] l.k = "hint"   -> T.hint
      [] l.k = "hmet"   -> T.hmet
      [] l.k = "heva"   -> T.heva
      [] l.k = "hcon"   -> T.hcon
      [] l.k = "hlim"   -> T.hlim
      [] l.k = "href"   -> T.href
      [] l.k = "fallback" -> T.fallback
      [] l.k = "url"    -> T.url
      [] l.k = "web"    -> T.web
      [] l.k = "path"   -> T.path

\* The characters of a text: its lines joined by "\n"
Chars(txt) == JoinWith(NL, [j \in DOMAIN txt |-> LineText(txt[j])])

\* re.findall of a pattern family over a text whose matches never span lines
FindAll(M(_, _), p, txt) == Flatten([j \in DOMAIN txt |-> M(p, txt[j])])

-----------------------------------------------------------------------------
(* Sets and sequences of strings *)

\* sorted(S) for a set of strings
SortedSeq(S) ==
    [n \in 1..Cardinality(S) |->
        CHOOSE x \in S : Cardinality({y \in S : StrLess(y, x)}) = n - 1]

Reverse(s) == [j \in DOMAIN s |-> s[Len(s) + 1 - j]]

Range(s) == {s[j] : j \in DOMAIN s}

\* list(S) for a set of strings: the iteration order of a Python set of str
\* follows the strings' hashes, which are salted per process
ListOfSet(S, seed) == IF seed = 0 THEN SortedSeq(S) ELSE Reverse(SortedSeq(S))

-----------------------------------------------------------------------------
(* Section Segmenter *)

SectionNames == {"abstract", "introduction", "method", "results", "conclusion",
                 "limitations"}

\* the heading lines a section pattern starts at
SectionHead(name) ==
    CASE name = "abstract"     -> {"habs"}
      [] name = "introduction" -> {"hint"}
      [] name = "method"       -> {"hmet"}
      [] name = "results"      -> {"heva"}
      [] name = "conclusion"   -> {"hcon"}
      [] name = "limitations"  -> {"hlim"}

\* the lines a section pattern's lookahead stops before
SectionStop(name) ==
    CASE name = "abstract"     -> {"hint"}
      [] name = "introduction" -> {"hmet"}
      [] name = "method"       -> {"heva"}
      [] name = "results"      -> {"hcon", "hlim"}
      [] name = "conclusion"   -> {"href"}
      [] name = "limitations"  -> {"href"}

Min(S) == CHOOSE x \in S : \A y \in S : x <= y

\* re.search(pattern, text, re.DOTALL): the leftmost heading that is followed,
\* after at least one line, by a stop line; group(1) runs up to the first one
SectionStarts(name, txt) == {j \in DOMAIN txt : txt[j].k \in SectionHead(name)}
SectionStops(name, txt) ==
    {j \in DOMAIN txt : /\ SectionStarts(name, txt) # {}
                        /\ j >= Min(SectionStarts(name, txt)) + 2
                        /\ txt[j].k \in SectionStop(name)}
SectionMatches(name, txt) == SectionStops(name, txt) # {}
SectionGroup(name, txt) ==
    Chars(SubSeq(txt, Min(SectionStarts(name, txt)) + 1, Min(SectionStops(name, txt)) - 1))

\* a section map that always carries the whole text as well
SectionsWithFullText(txt) ==
    [n \in {m \in SectionNames : SectionMatches(m, txt)} \cup {"full_text"} |->
        IF n = "full_text" THEN Chars(txt) ELSE Strip(SectionGroup(n, txt))]

\* _extract_sections: a map from section name to section text
ExtractSections(txt) ==
    LET found == {n \in SectionNames : SectionMatches(n, txt)}
    IN  IF found = {}
        THEN [n \in {"full_text"} |-> Chars(txt)]
        ELSE [n \in found |-> Strip(SectionGroup(n, txt))]

\* dict.get(key, default)
Get(d, key, default) == IF key \in DOMAIN d THEN d[key] ELSE default

-----------------------------------------------------------------------------
(* Citation Extractor *)

\* the whole match of a citation pattern, brackets included
CitationMatchWhole(p, l) ==
    CASE p = 1 /\ l.k = "cnum"  -> <<<<91>> \o Dec(l.i) \o <<93>>>>
      [] p = 2 /\ l.k = "cetal" -> <<<<40>> \o C.SmithEtAl \o <<41>>>>
      [] p = 2 /\ l.k = "cauth" -> <<<<40>> \o C.Smith \o <<41>>>>
      [] p = 3 /\ l.k = "cauth" -> <<<<40>> \o C.Smith \o <<41>>>>
      [] OTHER -> <<>>

\* re.findall with one group: the group of each match of citation pattern p
CitationMatch(p, l) ==
    CASE p = 1 /\ l.k = "cnum"  -> <<Dec(l.i)>>
      [] p = 2 /\ l.k = "cetal" -> <<C.SmithEtAl>>
      [] p = 2 /\ l.k = "cauth" -> <<C.Smith>>
      [] p = 3 /\ l.k = "cauth" -> <<C.Smith>>
      [] OTHER -> <<>>

\* the matches as a plain list, neither deduplicated nor sorted
ExtractCitationsListed(txt) == Flatten([p \in 1..3 |-> FindAll(CitationMatch, p, txt)])

\* _extract_citations
ExtractCitations(txt) ==
    SortedSeq(UNION {Range(FindAll(CitationMatch, p, txt)) : p \in 1..3})

-----------------------------------------------------------------------------
(* Equation Extractor *)

EquationMatch(p, l) ==
    CASE p = 1 /\ l.k = "eqdisp" -> <<C.y>>
      [] p = 2 /\ l.k = "eqin"   -> <<Dec(l.i)>>
      [] p = 2 /\ l.k = "eqdisp" -> << <<>>, <<>> >>
      [] p = 3 /\ l.k = "eqenv"  -> <<C.z>>
      [] OTHER -> <<>>

NonEmpty(s) == s # <<>>

\* [eq.strip() for eq in matches if eq.strip()]
StripKeep(matches) == SelectSeq([j \in DOMAIN matches |-> Strip(matches[j])], NonEmpty)

\* _extract_equations
ExtractEquations(txt) ==
    Flatten([p \in 1..4 |-> StripKeep(FindAll(EquationMatch, p, txt))])

-----------------------------------------------------------------------------
(* Metric/Result Extractor *)

\* each match is the tuple of the pattern's two groups, in the pattern's order
MetricMatch(p, l) ==
    CASE p = 1 /\ l.k = "mkv"   -> << <<C.accuracy, C.v0_9>> >>
      [] p = 2 /\ l.k = "mvm"   -> << <<C.v89_2, C.F1>> >>
      [] p = 2 /\ l.k = "mach"  -> << <<C.v71, C.BLEU>> >>
      [] p = 3 /\ l.k = "mach"  -> << <<C.v71, C.BLEU>> >>
      [] p = 4 /\ l.k = "msota" -> << <<C.Best, C.v5>> >>
      [] OTHER -> <<>>

MetricResult(match) ==
    [metric |-> Lower(match[1]), value |-> match[2],
     dataset_or_benchmark |-> NotSpecified, compared_to |-> NotSpecified,
     evidence_citation |-> NotSpecified]

\* _extract_metrics_and_results
ExtractMetricsAndResults(txt) ==
    Flatten([p \in 1..4 |->
        LET matches == SelectSeq(FindAll(MetricMatch, p, txt), LAMBDA m : Len(m) = 2)
        IN  [j \in DOMAIN matches |-> MetricResult(matches[j])]])

-----------------------------------------------------------------------------
(* Program constants *)

EquationCap == 5
ResultCap == 10
CitationCap == 20
ContributionCap == 5
LimitationCap == 3
GlossaryCap == 10
TldrSourceChars == 1000
TldrFallbackChars == 300
MethodSourceChars == 2000
SummarySentences == 3
RenderedEquations == 3
RenderedResults == 5
RenderedGlossary == 5
RenderedCitations == 12
max_retries == 3
retry_delay == 1

-----------------------------------------------------------------------------
(* Contribution Extractor *)

ContributionMatch(p, l) ==
    CASE p = 3 /\ l.k = "prop" -> <<C.fast_small>>
      [] p = 3 /\ l.k = "pres" -> <<C.m \o Dec(l.i)>>
      [] OTHER -> <<>>

RECURSIVE RunLen(_, _, _)
\* the number of consecutive characters of s from position k on that lie in S
RunLen(S, s, k) == IF k <= Len(s) /\ s[k] \in S THEN 1 + RunLen(S, s, k + 1) ELSE 0

SpaceChars == {32, 9, 10, 11, 12, 13}
DigitChars == 48..57
BulletChars == {8226, 45, 42}

\* the length of a match of  [bullet]\s* | \d+\)\s* | \d+\.\s*  at position k, or 0
DelimLen(s, k) ==
    IF s[k] \in BulletChars THEN 1 + RunLen(SpaceChars, s, k + 1)
    ELSE LET d == RunLen(DigitChars, s, k)
         IN  IF d > 0 /\ k + d <= Len(s) /\ s[k + d] \in {41, 46}
             THEN d + 1 + RunLen(SpaceChars, s, k + d + 1)
             ELSE 0

RECURSIVE SplitFrom(_, _, _)
SplitFrom(s, k, cur) ==
    IF k > Len(s) THEN <<cur>>
    ELSE IF DelimLen(s, k) > 0 THEN <<cur>> \o SplitFrom(s, k + DelimLen(s, k), <<>>)
    ELSE SplitFrom(s, k + 1, Append(cur, s[k]))

\* re.split of the bullet / numbering pattern
SplitItems(s) == SplitFrom(s, 1, <<>>)

ContributionsFallback(contributions) ==
    IF contributions # <<>> THEN Take(contributions, ContributionCap) ELSE <<NotSpecified>>

\* _extract_contributions
ExtractContributions(txt) ==
    ContributionsFallback(
        Flatten([p \in 1..3 |->
            LET matches == FindAll(ContributionMatch, p, txt)
            IN  Flatten([j \in DOMAIN matches |-> StripKeep(SplitItems(matches[j]))])]))

-----------------------------------------------------------------------------
(* Dataset and Baseline Extractors *)

DatasetMatch(p, l) ==
    CASE p = 1 /\ l.k = "dkey" -> <<C.imagenet>>
      [] p = 2 /\ l.k = "dkv"  -> <<C.Foo>>
      [] OTHER -> <<>>

\* _extract_datasets
ExtractDatasets(txt, seed) ==
    LET datasets == UNION {Range(FindAll(DatasetMatch, p, txt)) : p \in 1..3}
    IN  IF datasets # {} THEN ListOfSet(datasets, seed) ELSE <<NotSpecified>>

BaselineMatch(p, l) ==
    CASE p = 1 /\ l.k = "bkv"  -> <<C.Bert>>
      [] p = 3 /\ l.k = "bcmp" -> <<C.Gpt>>
      [] OTHER -> <<>>

\* _extract_baselines
ExtractBaselines(txt, seed) ==
    LET baselines == UNION {{Strip(b) : b \in Range(FindAll(BaselineMatch, p, txt))} : p \in 1..3}
    IN  IF baselines # {} THEN ListOfSet(baselines, seed) ELSE <<NotSpecified>>

-----------------------------------------------------------------------------
(* Limitation Extractor *)

\* \n\s*\d+\. or \n\s*[A-Z] under (?i): a line that starts with a letter, or with
\* a number and a full stop
StartsItem(s) ==
    /\ s # <<>>
    /\ \/ Lower(<<s[1]>>)[1] \in 97..122
       \/ \E n \in 1..(Len(s) - 1) : s[n + 1] = 46 /\ \A j \in 1..n : IsDigit(s[j])

\* [^.]+\. : a string up to and including its first full stop
UpToStop(s) == SubSeq(s, 1, Min({j \in DOMAIN s : s[j] = 46}))

\* the first line from line j on that satisfies P, or 0
FirstLine(txt, j, P(_, _)) ==
    IF \E m \in j..Len(txt) : P(txt, m) THEN Min({m \in j..Len(txt) : P(txt, m)}) ELSE 0

RECURSIVE LimitationSections(_, _)
\* family 1 from line j on: after a line ending in "limitation", group(1) runs
\* over the next lines up to the first one whose successor starts an item
LimitationSections(txt, j) ==
    LET last(t, m) == m < Len(t) /\ StartsItem(LineText(t[m + 1]))
        m == FirstLine(txt, j + 1, last)
    IN  IF j > Len(txt) THEN <<>>
        ELSE IF txt[j].k = "hlim" /\ m # 0
             THEN <<Chars(SubSeq(txt, j + 1, m))>> \o LimitationSections(txt, m + 1)
             ELSE LimitationSections(txt, j + 1)

RECURSIVE LimitationSentences(_, _)
\* family 2 from line j on: after the keyword, group(1) runs up to the first
\* full stop, on the keyword's line or on a later one
LimitationSentences(txt, j) ==
    LET stop(t, m) == 46 \in Range(LineText(t[m]))
        m == FirstLine(txt, j + 1, stop)
    IN  IF j > Len(txt) THEN <<>>
        ELSE IF txt[j].k = "lhow"
             THEN <<C.slow_raw>> \o LimitationSentences(txt, j + 1)
        ELSE IF txt[j].k = "hlim" /\ m # 0
             THEN <<Flatten([n \in 1..(m - j) |->
                       NL \o (IF j + n = m THEN UpToStop(LineText(txt[m]))
                                          ELSE LineText(txt[j + n]))])>>
                  \o LimitationSentences(txt, m + 1)
             ELSE LimitationSentences(txt, j + 1)

\* re.findall(pattern, text, re.DOTALL) for the two limitation patterns
LimitationMatches(p, txt) ==
    IF p = 1 THEN LimitationSections(txt, 1) ELSE LimitationSentences(txt, 1)

LimitationsFallback(limitations) ==
    IF limitations # <<>> THEN Take(limitations, LimitationCap) ELSE <<NotSpecified>>

\* _extract_limitations
ExtractLimitations(txt) ==
    LimitationsFallback(Flatten([p \in 1..2 |-> StripKeep(LimitationMatches(p, txt))]))

-----------------------------------------------------------------------------
(* Glossary Extractor *)

RECURSIVE HeadingRun(_, _)
\* the number of consecutive heading lines that end right before line j
HeadingRun(txt, j) ==
    IF j > 1 /\ txt[j - 1].k \in Headings THEN 1 + HeadingRun(txt, j - 1) ELSE 0

\* The term group [A-Z][a-z]+(?:\s+[A-Z][a-z]+)* also takes the capitalised
\* one-word lines right above the line, "\s+" matching the line breaks
TermGroup(txt, j, term) ==
    LET r == HeadingRun(txt, j)
    IN  IF r = 0 THEN term ELSE Chars(SubSeq(txt, j - r, j - 1)) \o NL \o term

\* the (term, definition) tuples a definition pattern finds at line j
GlossaryMatchAt(p, txt, j) ==
    LET l == txt[j]
    IN  CASE p = 1 /\ l.k = "gisa" -> << <<TermGroup(txt, j, Term(l.i)), C.model>> >>
          [] p = 2 /\ l.k = "gcol" -> << <<TermGroup(txt, j, Term(l.i)), C.model>> >>
          [] p = 2 /\ l.k = "dkv"  -> << <<TermGroup(txt, j, C.Dataset), C.FooDot>> >>
          [] p = 2 /\ l.k = "bkv"  -> << <<TermGroup(txt, j, C.Baseline), C.BertDot>> >>
          [] p = 2 /\ l.k = "fallback" ->
                 << <<TermGroup(txt, j, C.Title), C.TitleDef>>, <<C.Note, C.NoteDef>> >>
          [] OTHER -> <<>>

GlossaryEntry(match) == [term |-> Strip(match[1]), definition |-> Strip(match[2])]

SentinelEntry == [term |-> NotSpecified, definition |-> NotSpecified]

\* an append loop without the length test
GlossaryAppendAll(glossary, matches) == glossary \o matches

\* the loop appends a match only while the glossary holds fewer than 10 entries
GlossaryAppend(glossary, matches) ==
    glossary \o Take(matches, GlossaryCap - Len(glossary))

\* a glossary returned as found, without the sentinel entry
GlossaryAsFound(glossary) == glossary

GlossaryFallback(glossary) == IF glossary # <<>> THEN glossary ELSE <<SentinelEntry>>

\* _extract_glossary
ExtractGlossary(txt) ==
    LET found(p) == LET ms == Flatten([j \in DOMAIN txt |-> GlossaryMatchAt(p, txt, j)])
                    IN  [j \in DOMAIN ms |-> GlossaryEntry(ms[j])]
    IN  GlossaryFallback(GlossaryAppend(GlossaryAppend(<<>>, found(1)), found(2)))

-----------------------------------------------------------------------------
(* Summary Synthesizer *)

\* the positions of s where a sentence ends: ".", "!" or "?" followed by white space
SentenceEnds(s) == {k \in 1..(Len(s) - 1) : s[k] \in {46, 33, 63} /\ s[k + 1] \in SpaceChars}

Kth(S, n) == CHOOSE x \in S : Cardinality({y \in S : y < x}) = n - 1

\* nltk.tokenize.sent_tokenize, given usable tokenizer data
SentTokenize(s) ==
    LET ends == SentenceEnds(s)
        n == Cardinality(ends)
        piece(m) == SubSeq(s, IF m = 1 THEN 1 ELSE Kth(ends, m - 1) + 1,
                              IF m <= n THEN Kth(ends, m) ELSE Len(s))
    IN  StripKeep([m \in 1..(n + 1) |-> piece(m)])

\* a tldr that joins the first sentences however few there are
TldrJoined(sentences, abstract_text) == JoinWith(SP, Take(sentences, SummarySentences))

\* the tldr of _generate_summary_components
Tldr(sentences, abstract_text) ==
    IF Len(sentences) >= 3
    THEN JoinWith(SP, Take(sentences, SummarySentences))
    ELSE Take(abstract_text, TldrFallbackChars)

\* _extract_method_summary
ExtractMethodSummary(s) ==
    LET method_sentences == SentTokenize(Take(s, MethodSourceChars))
    IN  IF method_sentences # <<>>
        THEN JoinWith(SP, Take(method_sentences, SummarySentences))
        ELSE NotSpecified

\* _generate_summary_components
GenerateSummaryComponents(txt, sections, metadata, seed) ==
    LET abstract_text == Get(sections, "abstract", Take(Chars(txt), TldrSourceChars))
        sentences == SentTokenize(abstract_text)
        method_text == Get(sections, "method", Get(sections, "full_text", Chars(txt)))
    IN  [tldr |-> Tldr(sentences, abstract_text),
         contributions |-> ExtractContributions(txt),
         method_summary |-> ExtractMethodSummary(method_text),
         datasets |-> ExtractDatasets(txt, seed),
         baselines |-> ExtractBaselines(txt, seed),
         compute |-> NotSpecified,
         links |-> <<>>,
         ablations |-> <<>>,
         limitations |-> ExtractLimitations(txt),
         risks |-> <<>>,
         glossary |-> ExtractGlossary(txt)]

-----------------------------------------------------------------------------
(* Report Assembler *)

\* the json_output of _process_paper_text
JsonOutput(metadata, summary_data, citations, equations, results) ==
    [title |-> Get(metadata, "title", NotSpecified),
     tldr |-> summary_data.tldr,
     contributions |-> summary_data.contributions,
     method |-> [summary |-> summary_data.method_summary,
                 equations |-> Take(equations, EquationCap)],
     datasets |-> summary_data.datasets,
     setup |-> [baselines |-> summary_data.baselines,
                compute |-> summary_data.compute,
                code_or_data_links |-> summary_data.links],
     results |-> Take(results, ResultCap),
     ablations |-> summary_data.ablations,
     limitations |-> summary_data.limitations,
     risks_or_ethics |-> summary_data.risks,
     glossary |-> summary_data.glossary,
     citations_used |-> Take(citations, CitationCap)]

\* the report of a call that returned none
NoJson ==
    [title |-> <<>>, tldr |-> <<>>, contributions |-> <<>>,
     method |-> [summary |-> <<>>, equations |-> <<>>],
     datasets |-> <<>>,
     setup |-> [baselines |-> <<>>, compute |-> <<>>, code_or_data_links |-> <<>>],
     results |-> <<>>, ablations |-> <<>>, limitations |-> <<>>,
     risks_or_ethics |-> <<>>, glossary |-> <<>>, citations_used |-> <<>>]

-----------------------------------------------------------------------------
(* Document Renderer.  The document is kept as the sequence of the pieces  *)
(* the renderer appends; the rendered string is their concatenation.       *)

\* the literal pieces of the document template
MD ==
    [
     \* '# \U0001f4c4 Research Paper Summary: '
     Title |-> <<35, 32, 128196, 32, 82, 101, 115, 101, 97, 114, 99, 104, 32, 80, 97, 112, 101, 114, 32, 83, 117, 109, 109, 97, 114, 121, 58, 32>>,
     \* '\n\n**Authors:** '
     Authors |-> <<10, 10, 42, 42, 65, 117, 116, 104, 111, 114, 115, 58, 42, 42, 32>>,
     \* '  \n**Venue/Year:** '
     Venue |-> <<32, 32, 10, 42, 42, 86, 101, 110, 117, 101, 47, 89, 101, 97, 114, 58, 42, 42, 32>>,
     \* '  \n**DOI:** '
     Doi |-> <<32, 32, 10, 42, 42, 68, 79, 73, 58, 42, 42, 32>>,
     \* '\n\n---\n\n## \U0001f9e0 TL;DR\n> '
     Tldr |-> <<10, 10, 45, 45, 45, 10, 10, 35, 35, 32, 129504, 32, 84, 76, 59, 68, 82, 10, 62, 32>>,
     \* '\n\n---\n\n## \U0001f680 Why It Matters\nThis research contributes to the field by addressing key challenges and proposing novel solutions with practical implications.\n\n---\n\n## \U0001f50d Core Contributions'
     Why |-> <<10, 10, 45, 45, 45, 10, 10, 35, 35, 32, 128640, 32, 87, 104, 121, 32, 73, 116, 32, 77, 97, 116, 116, 101, 114, 115, 10, 84, 104, 105, 115, 32, 114, 101, 115, 101, 97, 114, 99, 104, 32, 99, 111, 110, 116, 114, 105, 98, 117, 116, 101, 115, 32, 116, 111, 32, 116, 104, 101, 32, 102, 105, 101, 108, 100, 32, 98, 121, 32, 97, 100, 100, 114, 101, 115, 115, 105, 110, 103, 32, 107, 101, 121, 32, 99, 104, 97, 108, 108, 101, 110, 103, 101, 115, 32, 97, 110, 100, 32, 112, 114, 111, 112, 111, 115, 105, 110, 103, 32, 110, 111, 118, 101, 108, 32, 115, 111, 108, 117, 116, 105, 111, 110, 115, 32, 119, 105, 116, 104, 32, 112, 114, 97, 99, 116, 105, 99, 97, 108, 32, 105, 109, 112, 108, 105, 99, 97, 116, 105, 111, 110, 115, 46, 10, 10, 45, 45, 45, 10, 10, 35, 35, 32, 128269, 32, 67, 111, 114, 101, 32, 67, 111, 110, 116, 114, 105, 98, 117, 116, 105, 111, 110, 115>>,
     \* '\n- '
     Bullet |-> <<10, 45, 32>>,
     \* '\n- Core contributions not clearly specified in the paper'
     NoContrib |-> <<10, 45, 32, 67, 111, 114, 101, 32, 99, 111, 110, 116, 114, 105, 98, 117, 116, 105, 111, 110, 115, 32, 110, 111, 116, 32, 99, 108, 101, 97, 114, 108, 121, 32, 115, 112, 101, 99, 105, 102, 105, 101, 100, 32, 105, 110, 32, 116, 104, 101, 32, 112, 97, 112, 101, 114>>,
     \* '\n\n---\n\n## \U0001f9ea Method\n'
     Method |-> <<10, 10, 45, 45, 45, 10, 10, 35, 35, 32, 129514, 32, 77, 101, 116, 104, 111, 100, 10>>,
     \* '\n\n**Key components:**'
     KeyComponents |-> <<10, 10, 42, 42, 75, 101, 121, 32, 99, 111, 109, 112, 111, 110, 101, 110, 116, 115, 58, 42, 42>>,
     \* '\n  - '
     EqBullet |-> <<10, 32, 32, 45, 32>>,
     \* '\n\n---\n\n## \U0001f4ca Data & Setup\n- **Datasets:** '
     Datasets |-> <<10, 10, 45, 45, 45, 10, 10, 35, 35, 32, 128202, 32, 68, 97, 116, 97, 32, 38, 32, 83, 101, 116, 117, 112, 10, 45, 32, 42, 42, 68, 97, 116, 97, 115, 101, 116, 115, 58, 42, 42, 32>>,
     \* '\n- **Compute:** '
     Compute |-> <<10, 45, 32, 42, 42, 67, 111, 109, 112, 117, 116, 101, 58, 42, 42, 32>>,
     \* '\n- **Baselines:** '
     Baselines |-> <<10, 45, 32, 42, 42, 66, 97, 115, 101, 108, 105, 110, 101, 115, 58, 42, 42, 32>>,
     \* '\n\n---\n\n## \U0001f4c8 Results'
     Results |-> <<10, 10, 45, 45, 45, 10, 10, 35, 35, 32, 128200, 32, 82, 101, 115, 117, 108, 116, 115>>,
     \* '\n| Task | Score | Notes |\n|------|-------|-------|\n'
     ResultsHead |-> <<10, 124, 32, 84, 97, 115, 107, 32, 124, 32, 83, 99, 111, 114, 101, 32, 124, 32, 78, 111, 116, 101, 115, 32, 124, 10, 124, 45, 45, 45, 45, 45, 45, 124, 45, 45, 45, 45, 45, 45, 45, 124, 45, 45, 45, 45, 45, 45, 45, 124, 10>>,
     \* '| '
     RowStart |-> <<124, 32>>,
     \* ' | '
     RowSep |-> <<32, 124, 32>>,
     \* ' |\n'
     RowEnd |-> <<32, 124, 10>>,
     \* '\n- Specific numerical results not clearly extracted from the paper'
     NoResults |-> <<10, 45, 32, 83, 112, 101, 99, 105, 102, 105, 99, 32, 110, 117, 109, 101, 114, 105, 99, 97, 108, 32, 114, 101, 115, 117, 108, 116, 115, 32, 110, 111, 116, 32, 99, 108, 101, 97, 114, 108, 121, 32, 101, 120, 116, 114, 97, 99, 116, 101, 100, 32, 102, 114, 111, 109, 32, 116, 104, 101, 32, 112, 97, 112, 101, 114>>,
     \* '\n\n---\n\n## \u26a0\ufe0f Limitations & Risks'
     Limitations |-> <<10, 10, 45, 45, 45, 10, 10, 35, 35, 32, 9888, 65039, 32, 76, 105, 109, 105, 116, 97, 116, 105, 111, 110, 115, 32, 38, 32, 82, 105, 115, 107, 115>>,
     \* '\n- Limitations not clearly specified in the paper'
     NoLimitations |-> <<10, 45, 32, 76, 105, 109, 105, 116, 97, 116, 105, 111, 110, 115, 32, 110, 111, 116, 32, 99, 108, 101, 97, 114, 108, 121, 32, 115, 112, 101, 99, 105, 102, 105, 101, 100, 32, 105, 110, 32, 116, 104, 101, 32, 112, 97, 112, 101, 114>>,
     \* '\n\n---\n\n## \U0001f501 Reproducibility'
     Repro |-> <<10, 10, 45, 45, 45, 10, 10, 35, 35, 32, 128257, 32, 82, 101, 112, 114, 111, 100, 117, 99, 105, 98, 105, 108, 105, 116, 121>>,
     \* '\n- **Code:** '
     Code |-> <<10, 45, 32, 42, 42, 67, 111, 100, 101, 58, 42, 42, 32>>,
     \* '\n- **Model Sizes:** '
     ModelSizes |-> <<10, 45, 32, 42, 42, 77, 111, 100, 101, 108, 32, 83, 105, 122, 101, 115, 58, 42, 42, 32>>,
     \* '\n\n---\n\n## \U0001f4da Glossary'
     Glossary |-> <<10, 10, 45, 45, 45, 10, 10, 35, 35, 32, 128218, 32, 71, 108, 111, 115, 115, 97, 114, 121>>,
     \* '\n- **'
     TermStart |-> <<10, 45, 32, 42, 42>>,
     \* ':** '
     TermSep |-> <<58, 42, 42, 32>>,
     \* '\n- Key terms not clearly extracted from the paper'
     NoGlossary |-> <<10, 45, 32, 75, 101, 121, 32, 116, 101, 114, 109, 115, 32, 110, 111, 116, 32, 99, 108, 101, 97, 114, 108, 121, 32, 101, 120, 116, 114, 97, 99, 116, 101, 100, 32, 102, 114, 111, 109, 32, 116, 104, 101, 32, 112, 97, 112, 101, 114>>,
     \* '\n\n---\n\n## \U0001f517 Citations Used\n'
     Citations |-> <<10, 10, 45, 45, 45, 10, 10, 35, 35, 32, 128279, 32, 67, 105, 116, 97, 116, 105, 111, 110, 115, 32, 85, 115, 101, 100, 10>>,
     \* 'Citations not clearly extracted'
     NoCitations |-> <<67, 105, 116, 97, 116, 105, 111, 110, 115, 32, 110, 111, 116, 32, 99, 108, 101, 97, 114, 108, 121, 32, 101, 120, 116, 114, 97, 99, 116, 101, 100>>,
     \* '\n\n---\n\n*Generated using automated paper summarization. Feel free to modify this summary as needed.*\n'
     Footer |-> <<10, 10, 45, 45, 45, 10, 10, 42, 71, 101, 110, 101, 114, 97, 116, 101, 100, 32, 117, 115, 105, 110, 103, 32, 97, 117, 116, 111, 109, 97, 116, 101, 100, 32, 112, 97, 112, 101, 114, 32, 115, 117, 109, 109, 97, 114, 105, 122, 97, 116, 105, 111, 110, 46, 32, 70, 101, 101, 108, 32, 102, 114, 101, 101, 32, 116, 111, 32, 109, 111, 100, 105, 102, 121, 32, 116, 104, 105, 115, 32, 115, 117, 109, 109, 97, 114, 121, 32, 97, 115, 32, 110, 101, 101, 100, 101, 100, 46, 42, 10>>,
     \* 'arXiv:'
     ArxivPrefix |-> <<97, 114, 88, 105, 118, 58>>,
     \* '['
     LinkOpen |-> <<91>>,
     \* '](https://arxiv.org/abs/'
     LinkMid |-> <<93, 40, 104, 116, 116, 112, 115, 58, 47, 47, 97, 114, 120, 105, 118, 46, 111, 114, 103, 47, 97, 98, 115, 47>>,
     \* ')'
     LinkClose |-> <<41>>
    ]

IsLetter(c) == (c >= 65 /\ c <= 90) \/ (c >= 97 /\ c <= 122)

\* str.title() on ASCII
Title(s) ==
    [j \in DOMAIN s |->
        IF ~IsLetter(s[j]) THEN s[j]
        ELSE IF j = 1 \/ ~IsLetter(s[j - 1])
             THEN (IF s[j] >= 97 THEN s[j] - 32 ELSE s[j])
             ELSE (IF s[j] <= 90 THEN s[j] + 32 ELSE s[j])]

\* str.startswith
StartsWith(s, pre) == Len(s) >= Len(pre) /\ SubSeq(s, 1, Len(pre)) = pre

RECURSIVE RemoveAll(_, _)
\* s.replace(old, '')
RemoveAll(s, old) ==
    IF s = <<>> THEN <<>>
    ELSE IF StartsWith(s, old) THEN RemoveAll(SubSeq(s, Len(old) + 1, Len(s)), old)
    ELSE <<s[1]>> \o RemoveAll(Tail(s), old)

DoiLink(metadata) ==
    LET doi_arxiv == Get(metadata, "doi_or_arxiv", NotSpecified)
    IN  IF StartsWith(doi_arxiv, MD.ArxivPrefix)
        THEN MD.LinkOpen \o doi_arxiv \o MD.LinkMid \o RemoveAll(doi_arxiv, MD.ArxivPrefix)
             \o MD.LinkClose
        ELSE doi_arxiv

IsReal(s) == s # NotSpecified
IsRealEntry(e) == e.term # NotSpecified

\* the contributions and the limitations bullets
Bullets(items, fallback) ==
    LET shown == SelectSeq(items, IsReal)
    IN  [j \in DOMAIN shown |-> MD.Bullet \o shown[j]]
        \o (IF \E j \in DOMAIN items : items[j] # NotSpecified THEN <<>> ELSE <<fallback>>)

EquationLines(equations) ==
    IF equations # <<>>
    THEN <<MD.KeyComponents>>
         \o [j \in DOMAIN Take(equations, RenderedEquations) |-> MD.EqBullet \o equations[j]]
    ELSE <<>>

ResultRow(result) ==
    MD.RowStart \o Title(result.metric) \o MD.RowSep \o result.value \o MD.RowSep
    \o result.dataset_or_benchmark \o MD.RowEnd

ResultLines(results) ==
    IF results # <<>>
    THEN <<MD.ResultsHead>>
         \o [j \in DOMAIN Take(results, RenderedResults) |-> ResultRow(results[j])]
    ELSE <<MD.NoResults>>

CodeLine(links) ==
    IF links # <<>> THEN MD.Code \o JoinWith(COMMA_SP, links) ELSE MD.Code \o NotSpecified

ModelSizeLines(metadata) ==
    IF "model_sizes" \in DOMAIN metadata
    THEN <<MD.ModelSizes \o metadata["model_sizes"]>> ELSE <<>>

\* a glossary section that shows one entry fewer
GlossaryLinesShort(glossary) ==
    LET shown == SelectSeq(Take(glossary, RenderedGlossary - 1), IsRealEntry)
    IN  [j \in DOMAIN shown |->
            MD.TermStart \o shown[j].term \o MD.TermSep \o shown[j].definition]
        \o (IF \E j \in DOMAIN glossary : glossary[j].term # NotSpecified
            THEN <<>> ELSE <<MD.NoGlossary>>)

GlossaryLines(glossary) ==
    LET shown == SelectSeq(Take(glossary, RenderedGlossary), IsRealEntry)
    IN  [j \in DOMAIN shown |->
            MD.TermStart \o shown[j].term \o MD.TermSep \o shown[j].definition]
        \o (IF \E j \in DOMAIN glossary : glossary[j].term # NotSpecified
            THEN <<>> ELSE <<MD.NoGlossary>>)

CitationLine(citations_used) ==
    IF citations_used # <<>>
    THEN JoinWith(COMMA_SP, Take(citations_used, RenderedCitations))
    ELSE MD.NoCitations

\* _generate_markdown
GenerateMarkdown(json_data, metadata) ==
    <<MD.Title, json_data.title,
      MD.Authors, Get(metadata, "authors", NotSpecified),
      MD.Venue, Get(metadata, "venue_year", NotSpecified),
      MD.Doi, DoiLink(metadata),
      MD.Tldr, json_data.tldr, MD.Why>>
    \o Bullets(json_data.contributions, MD.NoContrib)
    \o <<MD.Method, json_data.method.summary>>
    \o EquationLines(json_data.method.equations)
    \o <<MD.Datasets, JoinWith(COMMA_SP, json_data.datasets),
         MD.Compute, json_data.setup.compute,
         MD.Baselines, JoinWith(COMMA_SP, json_data.setup.baselines),
         MD.Results>>
    \o ResultLines(json_data.results)
    \o <<MD.Limitations>>
    \o Bullets(json_data.limitations, MD.NoLimitations)
    \o <<MD.Repro, CodeLine(json_data.setup.code_or_data_links)>>
    \o ModelSizeLines(metadata)
    \o <<MD.Glossary>>
    \o GlossaryLines(json_data.glossary)
    \o <<MD.Citations, CitationLine(json_data.citations_used), MD.Footer>>

\* the rendered string
Document(markdown) == Flatten(markdown)

-----------------------------------------------------------------------------
(* The inputs the model draws from *)

RECURSIVE SeqsUpTo(_, _)
\* the sequences over S of length at most n
SeqsUpTo(S, n) ==
    IF n = 0 THEN {<<>>}
    ELSE LET shorter == SeqsUpTo(S, n - 1)
         IN  shorter \cup {Append(s, x) : s \in shorter, x \in S}

\* the lines from which texts are built freely
FreeLines ==
    {Line(kind, 1) : kind \in {"cnum", "cauth", "cetal", "dkey", "dkv", "bkv", "bcmp", "gisa",
                               "gcol", "habs"}}

\* n lines of one kind, mentioning 1, 2, ..., n
Bulk(kind, n) == [j \in 1..n |-> Line(kind, j)]

BulkKinds == {"cnum", "eqin", "eqenv", "mkv", "mvm", "mach", "pres", "prop", "lhow", "gisa", "gcol"}

\* a line put in front of a run of repeated lines
BulkPrefixes == {<<>>, <<Line("gcol", 26)>>, <<Line("cauth", 0)>>, <<Line("habs", 0)>>}

\* texts with section headings
SectionedTexts ==
    LET b == Line("plain", 0)
        g == Line("gisa", 1)
        c == Line("cnum", 1)
    IN  {<<Line("habs", 0), b, Line("hint", 0)>>,
         <<Line("habs", 0), b, g, c, Line("hint", 0), b>>,
         <<Line("habs", 0), b, g, c, b, Line("hint", 0), b>>,
         <<Line("habs", 0), Line("hint", 0), Line("hint", 0)>>,
         <<Line("hmet", 0), g, c, b, b, Line("heva", 0), c>>,
         <<Line("habs", 0), b, Line("hint", 0), c, Line("hmet", 0), g, Line("heva", 0), b,
           Line("hcon", 0), b, Line("href", 0), c>>,
         <<Line("hint", 0), b, Line("hmet", 0)>>,
         <<Line("heva", 0), b, Line("hcon", 0)>>,
         <<Line("hcon", 0), b, Line("href", 0)>>,
         <<Line("hlim", 0), b, Line("href", 0)>>,
         <<Line("habs", 0), b, Line("hint", 0), c, Line("hmet", 0), g, Line("heva", 0), b,
           Line("hlim", 0), b, Line("hcon", 0), Line("hcon", 0), b, Line("href", 0), c>>,
         <<Line("heva", 0), c, Line("hlim", 0), Line("lhow", 0), b, Line("href", 0)>>}

\* texts of more than 1000 characters: one sentence followed by a long run
\* without a full stop and two more sentences, and a long run of sentences
LongTexts ==
    {<<Line("plain", 0)>> \o Bulk("eqenv", LongBulk)
        \o <<Line("plain", 0), Line("plain", 0)>>,
     Bulk("plain", LongBulk + LongBulk)}

Texts ==
    SeqsUpTo(FreeLines, MaxShort)
    \cup LongTexts
    \cup {<<Line(kind, 1)>> : kind \in Kinds}
    \cup {p \o Bulk(kind, n) : p \in BulkPrefixes, kind \in BulkKinds, n \in 1..MaxBulk}
    \cup SectionedTexts

\* a few texts, for the inputs that vary something else
FewTexts == {<<>>, <<Line("plain", 0)>>, <<Line("cnum", 1), Line("dkey", 0), Line("dkv", 0)>>}

EmptyDict == <<>>

\* the metadata a caller passes: None, or a dict
UserMetadatas ==
    {[none |-> TRUE, d |-> EmptyDict],
     [none |-> FALSE, d |-> EmptyDict],
     [none |-> FALSE, d |-> [k \in {"title"} |-> V.UserTitle]],
     [none |-> FALSE, d |-> [k \in {"doi_or_arxiv"} |-> V.UserDoi]],
     [none |-> FALSE, d |-> [k \in {"title", "doi_or_arxiv", "model_sizes"} |->
                               CASE k = "title" -> V.UserTitle
                                 [] k = "doi_or_arxiv" -> V.PaperId
                                 [] k = "model_sizes" -> V.UserSizes]]}

\* input_source: None, or a str; of a str the model keeps what summarize_paper
\* and fetch_paper_from_url test, and its lines
StrSource(txt) == [none |-> FALSE, http |-> FALSE, pdf |-> FALSE, arxiv |-> FALSE, lines |-> txt]
NoneSource == [none |-> TRUE, http |-> FALSE, pdf |-> FALSE, arxiv |-> FALSE, lines |-> <<>>]
ArxivUrl == [none |-> FALSE, http |-> TRUE, pdf |-> FALSE, arxiv |-> TRUE,
             lines |-> <<Line("url", 0)>>]
WebUrl == [none |-> FALSE, http |-> TRUE, pdf |-> FALSE, arxiv |-> FALSE,
           lines |-> <<Line("web", 0)>>]
PdfPath == [none |-> FALSE, http |-> FALSE, pdf |-> TRUE, arxiv |-> FALSE,
            lines |-> <<Line("path", 0)>>]

InputTypes == {"auto", "pdf", "url", "text", "docx"}

Requests ==
    {[source |-> StrSource(t), type |-> "text", metadata |-> [none |-> FALSE, d |-> EmptyDict]]
        : t \in Texts}
    \cup {[source |-> s, type |-> ty, metadata |-> m]
            : s \in {StrSource(t) : t \in FewTexts} \cup {NoneSource, ArxivUrl, WebUrl, PdfPath},
              ty \in InputTypes, m \in UserMetadatas}

\* what an acquisition that succeeds can return as the paper's text
AcquiredTexts == {<<>>, <<Line("plain", 0), Line("cnum", 1)>>}

\* the metadata _fetch_from_arxiv builds from the index record
ArxivMetadata ==
    [k \in {"title", "authors", "venue_year", "doi_or_arxiv", "abstract"} |->
        CASE k = "title" -> V.PaperTitle
          [] k = "authors" -> V.PaperAuthors
          [] k = "venue_year" -> V.PaperVenue
          [] k = "doi_or_arxiv" -> V.PaperId
          [] k = "abstract" -> V.PaperSummary]

\* the metadata fetch_paper_from_url finds on a page: none, or the page's title
PageMetadatas == {EmptyDict, [k \in {"title"} |-> V.PageTitle]}

\* the string-hash seeds a process can start with
Seeds == {0, 1}

-----------------------------------------------------------------------------
(* The request: PaperSummarizer.summarize_paper and what it calls *)

NoOutcome == [kind |-> "none", exc |-> "", markdown |-> <<>>, json |-> NoJson,
              metadata |-> EmptyDict]

Raised(exception) == [kind |-> "raised", exc |-> exception, markdown |-> <<>>,
                      json |-> NoJson, metadata |-> EmptyDict]

Returned(markdown_output, json_output, metadata) ==
    [kind |-> "returned", exc |-> "", markdown |-> markdown_output, json |-> json_output,
     metadata |-> metadata]

NoText == [none |-> TRUE, lines |-> <<>>]
StrText(txt) == [none |-> FALSE, lines |-> txt]

\* metadata or {}
OrEmpty(m) == IF m.none \/ m.d = EmptyDict THEN EmptyDict ELSE m.d

\* an update in which the keys already present win
UpdateMissing(d, other) ==
    [k \in DOMAIN d \cup DOMAIN other |-> IF k \in DOMAIN d THEN d[k] ELSE other[k]]

\* dict.update: other's keys win
Update(d, other) ==
    [k \in DOMAIN d \cup DOMAIN other |-> IF k \in DOMAIN other THEN other[k] ELSE d[k]]

\* text, paper_metadata = fetch_paper_from_url(...); if metadata: paper_metadata.update(metadata)
Merged(fetched, m) == IF m.none \/ m.d = EmptyDict THEN fetched ELSE Update(fetched, m.d)

\* the input type summarize_paper works with
ResolvedType(req) ==
    IF req.type = "auto"
    THEN IF req.source.http THEN "url"
         ELSE IF req.source.pdf THEN "pdf"
         ELSE "text"
    ELSE req.type

\* the threads of the web process that serve requests side by side
Callers == {1, 2}

\* a caller that has not called yet; locals are the local variables of
\* summarize_paper and _process_paper_text, http those of the upload handler
NoCall == [at |-> "idle", request |-> <<>>, ran |-> <<>>, outcome |-> NoOutcome,
           overlapped |-> FALSE,
           http |-> [upload |-> <<>>, filepath |-> <<>>, saved |-> FALSE, status |-> 0],
           locals |-> [text |-> NoText, paper_metadata |-> EmptyDict, sections |-> <<>>,
                       citations |-> <<>>, equations |-> <<>>, results |-> <<>>,
                       summary_data |-> <<>>]]

Init ==
    /\ pc = "new"
    /\ calls = [c \in Callers |-> NoCall]
    /\ uploads = <<>>
    /\ nlp = "unset"
    /\ punkt = FALSE
    /\ hashseed = 0
    /\ request = [source |-> NoneSource, type |-> "auto",
                  metadata |-> [none |-> TRUE, d |-> EmptyDict]]
    /\ input_type = "auto"
    /\ text = NoText
    /\ paper_metadata = EmptyDict
    /\ attempt = 0
    /\ slept = <<>>
    /\ io = <<>>
    /\ ran = <<>>
    /\ outcome = NoOutcome
    /\ first = NoOutcome

\* PaperSummarizer.__init__, in a process that starts with some hash seed.
\* A missing spaCy model leaves nlp None; missing tokenizer data is downloaded,
\* and a download that fails is reported by nltk.download without an exception.
Construct(spacy_found, punkt_found, download_ok, seed) ==
    /\ pc = "new"
    /\ nlp' = IF spacy_found THEN "loaded" ELSE "None"
    /\ punkt' = (punkt_found \/ download_ok)
    /\ hashseed' = seed
    /\ pc' = "idle"
    /\ UNCHANGED <<request, input_type, text, paper_metadata, attempt, slept, io, ran,
                   outcome, first>>
    /\ UNCHANGED <<calls, uploads>>

\* summarize_paper is entered: the input type is determined
Enter(req) ==
    /\ request' = req
    /\ text' = NoText
    /\ paper_metadata' = EmptyDict
    /\ attempt' = 0
    /\ slept' = <<>>
    /\ io' = <<>>
    /\ ran' = <<>>
    /\ IF req.type = "auto" /\ req.source.none
       THEN \* None has no startswith
            /\ input_type' = req.type
            /\ outcome' = Raised("AttributeError")
            /\ pc' = "done"
       ELSE /\ input_type' = ResolvedType(req)
            /\ outcome' = NoOutcome
            /\ pc' = "acquire"

Call(req) ==
    /\ pc = "idle"
    /\ Enter(req)
    /\ UNCHANGED <<nlp, punkt, hashseed, first>>
    /\ UNCHANGED <<calls, uploads>>

\* the else branch: the input is the text
AcquireText ==
    /\ pc = "acquire"
    /\ input_type \notin {"pdf", "url"}
    /\ text' = IF request.source.none THEN NoText ELSE StrText(request.source.lines)
    /\ paper_metadata' = OrEmpty(request.metadata)
    /\ pc' = "process"
    /\ UNCHANGED <<nlp, punkt, hashseed, request, input_type, attempt, slept, io, ran,
                   outcome, first>>
    /\ UNCHANGED <<calls, uploads>>

\* extract_text_from_pdf: the text of the file, or ValueError
AcquirePdf(ok, txt) ==
    /\ pc = "acquire"
    /\ input_type = "pdf"
    /\ io' = Append(io, "pdf_read")
    /\ IF ok /\ ~request.source.none
       THEN /\ text' = StrText(txt)
            /\ paper_metadata' = OrEmpty(request.metadata)
            /\ pc' = "process"
            /\ UNCHANGED outcome
       ELSE /\ outcome' = Raised("ValueError")
            /\ pc' = "done"
            /\ UNCHANGED <<text, paper_metadata>>
    /\ UNCHANGED <<nlp, punkt, hashseed, request, input_type, attempt, slept, ran, first>>
    /\ UNCHANGED <<calls, uploads>>

\* fetch_paper_from_url for a URL that is no arXiv URL: the page or the PDF, or ValueError
FetchUrl(ok, txt, page_metadata) ==
    /\ pc = "acquire"
    /\ input_type = "url"
    /\ ~request.source.arxiv
    /\ IF request.source.none
       THEN \* "arxiv.org" in None
            /\ outcome' = Raised("TypeError")
            /\ pc' = "done"
            /\ UNCHANGED <<text, paper_metadata, io>>
       ELSE /\ io' = Append(io, "http_get")
            /\ IF ok
               THEN /\ text' = StrText(txt)
                    /\ paper_metadata' = Merged(page_metadata, request.metadata)
                    /\ pc' = "process"
                    /\ UNCHANGED outcome
               ELSE /\ outcome' = Raised("ValueError")
                    /\ pc' = "done"
                    /\ UNCHANGED <<text, paper_metadata>>
    /\ UNCHANGED <<nlp, punkt, hashseed, request, input_type, attempt, slept, ran, first>>
    /\ UNCHANGED <<calls, uploads>>

\* fetch_paper_from_url for an arXiv URL: _fetch_from_arxiv is entered
EnterArxiv ==
    /\ pc = "acquire"
    /\ input_type = "url"
    /\ request.source.arxiv
    /\ attempt' = 0
    /\ pc' = "arxiv_try"
    /\ UNCHANGED <<nlp, punkt, hashseed, request, input_type, text, paper_metadata, slept,
                   io, ran, outcome, first>>
    /\ UNCHANGED <<calls, uploads>>

\* one pass of the retry loop's try block: the index query, the library's
\* download and, when that fails, the manual download
ArxivAttempt(search_ok, download_ok, manual_ok, txt) ==
    /\ pc = "arxiv_try"
    /\ io' = Append(io, "arxiv_try")
    /\ IF search_ok /\ (download_ok \/ manual_ok)
       THEN /\ text' = StrText(txt)
            /\ paper_metadata' = Merged(ArxivMetadata, request.metadata)
            /\ pc' = "process"
       ELSE /\ pc' = "arxiv_except"
            /\ UNCHANGED <<text, paper_metadata>>
    /\ UNCHANGED <<nlp, punkt, hashseed, request, input_type, attempt, slept, ran, outcome,
                   first>>
    /\ UNCHANGED <<calls, uploads>>

\* a fallback text that is the abstract alone
ArxivFallbackAbstract == <<Line("plain", 0)>>

ArxivFallbackText == <<Line("fallback", 0)>>

\* where the loop goes after "continue": the next pass, or past the loop to
\* the function's last statement, which raises
AfterContinue(next_attempt) ==
    IF next_attempt < max_retries THEN "arxiv_try" ELSE "arxiv_exhausted"

\* a retry test that is off by one
RetriesLeftOneMore(att) == att < max_retries

\* whether the handler sleeps and retries
RetriesLeft(att) == att < max_retries - 1

\* time.sleep(retry_delay * (2 ** attempt))
Backoff(att) == retry_delay * (2 ^ att)

\* the retry loop's except block
ArxivExcept(fallback_ok) ==
    /\ pc = "arxiv_except"
    /\ IF RetriesLeft(attempt)
       THEN /\ slept' = Append(slept, Backoff(attempt))
            /\ attempt' = attempt + 1
            /\ IF AfterContinue(attempt + 1) = "arxiv_try"
               THEN pc' = "arxiv_try" /\ UNCHANGED outcome
               ELSE pc' = "done" /\ outcome' = Raised("ValueError: loop exhausted")
            /\ UNCHANGED <<text, paper_metadata, io>>
       ELSE /\ io' = Append(io, "arxiv_abstract")
            /\ IF fallback_ok
               THEN /\ text' = StrText(ArxivFallbackText)
                    /\ paper_metadata' = Merged(ArxivMetadata, request.metadata)
                    /\ pc' = "process"
                    /\ UNCHANGED outcome
               ELSE /\ outcome' = Raised("ValueError")
                    /\ pc' = "done"
                    /\ UNCHANGED <<text, paper_metadata>>
            /\ UNCHANGED <<attempt, slept>>
    /\ UNCHANGED <<nlp, punkt, hashseed, request, input_type, ran, first>>
    /\ UNCHANGED <<calls, uploads>>

ExtractorSteps == <<"_extract_sections", "_extract_citations", "_extract_equations",
                    "_extract_metrics_and_results", "_generate_summary_components">>

\* what _process_paper_text returns
ProcessResult(txt, metadata, seed) ==
    LET sections == ExtractSections(txt)
        citations == ExtractCitations(txt)
        equations == ExtractEquations(txt)
        results == ExtractMetricsAndResults(txt)
        summary_data == GenerateSummaryComponents(txt, sections, metadata, seed)
        json_output == JsonOutput(metadata, summary_data, citations, equations, results)
    IN  Returned(GenerateMarkdown(json_output, metadata), json_output, metadata)

\* _process_paper_text.  re.search raises TypeError on None; sent_tokenize raises
\* LookupError without tokenizer data; nothing in the pipeline catches either.
ProcessPaperText ==
    /\ pc = "process"
    /\ IF text.none
       THEN /\ ran' = SubSeq(ExtractorSteps, 1, 1)
            /\ outcome' = Raised("TypeError")
       ELSE IF ~punkt
       THEN /\ ran' = ExtractorSteps
            /\ outcome' = Raised("LookupError")
       ELSE /\ ran' = Append(ExtractorSteps, "_generate_markdown")
            /\ outcome' = ProcessResult(text.lines, paper_metadata, hashseed)
    /\ pc' = "done"
    /\ UNCHANGED <<nlp, punkt, hashseed, request, input_type, text, paper_metadata, attempt,
                   slept, io, first>>
    /\ UNCHANGED <<calls, uploads>>

\* the same arguments are passed again, to this process or to another one
\* (another hash seed) with the same installation
Again(seed) ==
    /\ pc = "done"
    /\ first.kind = "none"
    /\ first' = outcome
    /\ hashseed' = seed
    /\ Enter(request)
    /\ UNCHANGED <<nlp, punkt>>
    /\ UNCHANGED <<calls, uploads>>

Next ==
    \/ \E spacy_found, punkt_found, download_ok \in BOOLEAN, seed \in Seeds :
          Construct(spacy_found, punkt_found, download_ok, seed)
    \/ \E req \in Requests : Call(req)
    \/ AcquireText
    \/ \E ok \in BOOLEAN, txt \in AcquiredTexts : AcquirePdf(ok, txt)
    \/ \E ok \in BOOLEAN, txt \in AcquiredTexts, page_metadata \in PageMetadatas :
          FetchUrl(ok, txt, page_metadata)
    \/ EnterArxiv
    \/ \E search_ok, download_ok, manual_ok \in BOOLEAN, txt \in AcquiredTexts :
          ArxivAttempt(search_ok, download_ok, manual_ok, txt)
    \/ \E fallback_ok \in BOOLEAN : ArxivExcept(fallback_ok)
    \/ ProcessPaperText
    \/ \E seed \in Seeds : Again(seed)

Spec == Init /\ [][Next]_vars


-----------------------------------------------------------------------------
(* The renderer called on its own, with any report and metadata *)

\* a value that is no str: None (written as a code point no str holds)
None == <<-1>>

\* the report with the given lists, the other fields as for a one-sentence text
ReportWith(contributions, limitations, glossary, results) ==
    [title |-> NotSpecified, tldr |-> T.plain, contributions |-> contributions,
     method |-> [summary |-> T.plain, equations |-> <<>>],
     datasets |-> <<NotSpecified>>,
     setup |-> [baselines |-> <<NotSpecified>>, compute |-> NotSpecified,
                code_or_data_links |-> <<>>],
     results |-> results, ablations |-> <<>>, limitations |-> limitations,
     risks_or_ethics |-> <<>>, glossary |-> glossary, citations_used |-> <<>>]

RenderedReports ==
    LET Copies(x, n) == [j \in 1..n |-> x]
        Without(json_data, key) == [k \in DOMAIN json_data \ {key} |-> json_data[k]]
        e == [term |-> C.Bert, definition |-> C.model]
        StringLists == {<<>>, <<NotSpecified>>, <<C.fast_small>>, <<NotSpecified, C.m>>}
        Glossaries == {<<>>, <<SentinelEntry>>, <<e>>, Copies(e, RenderedGlossary + 1),
                       Append(Copies(SentinelEntry, RenderedGlossary), e)}
        Results == {<<>>, <<MetricResult(<<C.accuracy, C.v0_9>>)>>}
        Full == {ReportWith(c, l, g, r) :
                    c \in StringLists, l \in StringLists, g \in Glossaries, r \in Results}
        Base == ReportWith(<<NotSpecified>>, <<NotSpecified>>, <<SentinelEntry>>, <<>>)
    IN  Full \cup {Without(Base, key) : key \in DOMAIN Base}

RenderedMetadatas ==
    {EmptyDict,
     ArxivMetadata,
     [k \in {"doi_or_arxiv"} |-> None],
     [k \in {"title", "authors"} |-> None]}

\* f"{value}" for the metadata values the template formats: None shows as "None"
Formatted(metadata) ==
    [k \in DOMAIN metadata |-> IF metadata[k] = None THEN <<78, 111, 110, 101>>
                               ELSE metadata[k]]

\* what _generate_markdown returns or raises: None has no startswith, and a
\* subscript with a key the report lacks raises KeyError
RenderResult(json_data, metadata) ==
    LET subscripted == {"title", "tldr", "contributions", "method", "datasets", "setup",
                        "results", "limitations", "glossary", "citations_used"}
    IN
    IF Get(metadata, "doi_or_arxiv", NotSpecified) = None THEN Raised("AttributeError")
    ELSE IF ~(subscripted \subseteq DOMAIN json_data) THEN Raised("KeyError")
    ELSE Returned(GenerateMarkdown(json_data, Formatted(metadata)), json_data, metadata)

\* _generate_markdown(summary_data, json_data, metadata), called directly
RenderCall(json_data, metadata) ==
    /\ pc = "idle"
    /\ ran' = <<"_generate_markdown">>
    /\ paper_metadata' = metadata
    /\ outcome' = RenderResult(json_data, metadata)
    /\ pc' = "done"
    /\ UNCHANGED <<nlp, punkt, hashseed, request, input_type, text, attempt, slept, io,
                   first>>
    /\ UNCHANGED <<calls, uploads>>


-----------------------------------------------------------------------------
(* The section segmenter called on its own *)

\* the value a helper method returns
ReturnedValue(value) == [kind |-> "returned", value |-> value]

\* _extract_sections(text), called directly
SectionsCall(txt) ==
    /\ pc = "idle"
    /\ ran' = <<"_extract_sections">>
    /\ text' = StrText(txt)
    /\ outcome' = ReturnedValue(ExtractSections(txt))
    /\ pc' = "done"
    /\ UNCHANGED <<nlp, punkt, hashseed, request, input_type, paper_metadata, attempt,
                   slept, io, first>>
    /\ UNCHANGED <<calls, uploads>>

\* the helper methods called on their own, on a constructed instance
NextHelpers ==
    \/ \E spacy_found, punkt_found, download_ok \in BOOLEAN, seed \in Seeds :
          Construct(spacy_found, punkt_found, download_ok, seed)
    \/ \E json_data \in RenderedReports, metadata \in RenderedMetadatas :
          RenderCall(json_data, metadata)
    \/ \E txt \in Texts : SectionsCall(txt)

SpecHelpers == Init /\ [][NextHelpers]_vars

-----------------------------------------------------------------------------
(* Calls running side by side on the one instance of app.py *)

\* local variables kept in one place for all calls, as attributes of the instance are
LocalsOnInstance(call) == 1

\* where the local variables of a call live: in the call's own frame
Locals(call) == call

\* the arguments of the concurrent calls: input type 'text'
SharedRequests ==
    {[source |-> s, type |-> "text", metadata |-> m] :
        s \in {StrSource(<<Line("plain", 0)>>),
               StrSource(<<Line("cnum", 1), Line("dkey", 0), Line("dkv", 0)>>),
               StrSource(<<Line("habs", 0), Line("gisa", 1), Line("hint", 0)>>)},
        m \in {[none |-> TRUE, d |-> EmptyDict],
               [none |-> FALSE, d |-> [k \in {"title"} |-> V.UserTitle]]}}
    \cup {[source |-> NoneSource, type |-> "text", metadata |-> [none |-> TRUE, d |-> EmptyDict]]}

\* summarize_paper(input_source, 'text', metadata) is entered by a caller: the
\* else branch binds the locals text and paper_metadata
EnterText(call, req) ==
    /\ pc = "idle"
    /\ calls[call].at = "idle"
    /\ calls' = [calls EXCEPT
                   ![call].at = "process",
                   ![call].request = req,
                   ![Locals(call)].locals =
                       [NoCall.locals EXCEPT
                          !.text = IF req.source.none THEN NoText
                                   ELSE StrText(req.source.lines),
                          !.paper_metadata = OrEmpty(req.metadata)]]
    /\ UNCHANGED <<pc, nlp, punkt, hashseed, request, input_type, text, paper_metadata,
                   attempt, slept, io, ran, outcome, first, uploads>>

\* the next statement of _process_paper_text in a caller's invocation
Extract(call) ==
    LET n == Len(calls[call].ran) + 1
        l == calls[Locals(call)].locals
        txt == l.text.lines
        step == IF n <= Len(ExtractorSteps) THEN ExtractorSteps[n] ELSE "_generate_markdown"
        raises == IF n = 1 /\ l.text.none THEN "TypeError"
                  ELSE IF n = 5 /\ ~punkt THEN "LookupError"
                  ELSE ""
        json_output == JsonOutput(l.paper_metadata, l.summary_data, l.citations,
                                  l.equations, l.results)
        bound == CASE n = 1 -> [l EXCEPT !.sections = ExtractSections(txt)]
                   [] n = 2 -> [l EXCEPT !.citations = ExtractCitations(txt)]
                   [] n = 3 -> [l EXCEPT !.equations = ExtractEquations(txt)]
                   [] n = 4 -> [l EXCEPT !.results = ExtractMetricsAndResults(txt)]
                   [] n = 5 -> [l EXCEPT !.summary_data =
                                   GenerateSummaryComponents(txt, l.sections,
                                                             l.paper_metadata, hashseed)]
                   [] OTHER -> l
    IN  /\ pc = "idle"
        /\ calls[call].at = "process"
        /\ calls' = [calls EXCEPT
                       ![call].ran = Append(@, step),
                       ![call].overlapped =
                           @ \/ \E other \in Callers \ {call} : calls[other].at = "process",
                       ![call].at = IF raises # "" \/ n = 6 THEN "done" ELSE @,
                       ![call].outcome =
                           IF raises # "" THEN Raised(raises)
                           ELSE IF n = 6
                           THEN Returned(GenerateMarkdown(json_output, l.paper_metadata),
                                         json_output, l.paper_metadata)
                           ELSE @,
                       ![Locals(call)].locals = IF raises # "" THEN @ ELSE bound]
        /\ UNCHANGED <<pc, nlp, punkt, hashseed, request, input_type, text,
                       paper_metadata, attempt, slept, io, ran, outcome, first, uploads>>

NextShared ==
    \/ \E spacy_found, punkt_found, download_ok \in BOOLEAN, seed \in Seeds :
          Construct(spacy_found, punkt_found, download_ok, seed)
    \/ \E call \in Callers, req \in SharedRequests : EnterText(call, req)
    \/ \E call \in Callers : Extract(call)

SpecShared == Init /\ [][NextShared]_vars

-----------------------------------------------------------------------------
(* The upload endpoint /api/summarize of app.py *)

ALLOWED_EXTENSIONS == {<<112, 100, 102>>, <<116, 120, 116>>}  \* {'pdf', 'txt'}

\* allowed_file(filename)
allowed_file(filename) ==
    /\ 46 \in Range(filename)
    /\ LET dot == CHOOSE j \in DOMAIN filename :
                     filename[j] = 46 /\ \A m \in (j + 1)..Len(filename) : filename[m] # 46
       IN  Lower(SubSeq(filename, dot + 1, Len(filename))) \in ALLOWED_EXTENSIONS

\* werkzeug's secure_filename for names without accented letters: path
\* separators become blanks, runs of blanks "_", characters other than
\* [A-Za-z0-9_.-] are dropped, and "." and "_" are stripped from both ends
secure_filename(filename) ==
    LET blank(s) == [j \in DOMAIN s |-> IF s[j] \in {47, 92} THEN 32 ELSE s[j]]
        RECURSIVE joined(_)
        joined(s) == IF s = <<>> THEN <<>>
                     ELSE IF IsSpace(s[1]) THEN <<95>> \o joined(LStrip(s))
                     ELSE <<s[1]>> \o joined(Tail(s))
        kept(c) == \/ IsDigit(c) \/ c \in {95, 46, 45}
                   \/ (c >= 65 /\ c <= 90) \/ (c >= 97 /\ c <= 122)
        RECURSIVE stripped(_)
        stripped(s) == IF s # <<>> /\ s[1] \in {46, 95} THEN stripped(Tail(s))
                       ELSE IF s # <<>> /\ s[Len(s)] \in {46, 95}
                       THEN stripped(SubSeq(s, 1, Len(s) - 1))
                       ELSE s
    IN  stripped(SelectSeq(joined(Strip(blank(filename))), kept))

\* a clean-up that leaves the file where it is
Keep(folder, filepath) == folder

\* os.remove(filepath) in the upload folder
Remove(folder, filepath) == [f \in DOMAIN folder \ {filepath} |-> folder[f]]

\* the file part of a request: its name as the client sent it and its bytes (a
\* text readable as UTF-8, a PDF PyPDF2 can read, or neither)
UploadedFiles ==
    LET plain == [utf8 |-> TRUE, pdf |-> FALSE, lines |-> <<Line("plain", 0)>>]
        cited == [utf8 |-> TRUE, pdf |-> FALSE,
                  lines |-> <<Line("cnum", 1), Line("dkey", 0), Line("dkv", 0)>>]
        paper == [utf8 |-> FALSE, pdf |-> TRUE, lines |-> <<Line("plain", 0), Line("cnum", 1)>>]
        bytes == [utf8 |-> FALSE, pdf |-> FALSE, lines |-> <<>>]
    IN  {[file |-> FALSE, filename |-> <<>>, content |-> bytes],
         [file |-> TRUE, filename |-> <<>>, content |-> bytes],
         \* 'data.csv'
         [file |-> TRUE, filename |-> <<100, 97, 116, 97, 46, 99, 115, 118>>, content |-> plain]}
        \cup {[file |-> TRUE, filename |-> name, content |-> content] :
                 \* 'notes.txt', '../notes.txt', 'paper.pdf'
                 name \in {<<110, 111, 116, 101, 115, 46, 116, 120, 116>>,
                           <<46, 46, 47, 110, 111, 116, 101, 115, 46, 116, 120, 116>>,
                           <<112, 97, 112, 101, 114, 46, 112, 100, 102>>},
                 content \in {plain, cited, paper, bytes}}

\* summarize_file up to file.save: the three rejections, else the file is written
\* under its sanitized name
Receive(call, upload, form) ==
    LET filename == secure_filename(upload.filename)
        \* request.form.get(key, '') for the four keys
        metadata == [k \in {"title", "authors", "venue_year", "doi_or_arxiv"} |->
                        Get(form, k, <<>>)]
        rejected == ~upload.file \/ upload.filename = <<>> \/ ~allowed_file(upload.filename)
    IN  /\ pc = "idle"
        /\ calls[call].at = "idle"
        /\ calls' = [calls EXCEPT
                       ![call].at = IF rejected THEN "done" ELSE "saved",
                       ![call].request = [upload |-> upload, metadata |-> metadata],
                       ![call].http = [upload |-> upload,
                                       filepath |-> IF rejected THEN <<>> ELSE filename,
                                       saved |-> ~rejected,
                                       status |-> IF rejected THEN 400 ELSE 0]]
        /\ uploads' = IF rejected THEN uploads
                      ELSE [f \in DOMAIN uploads \cup {filename} |->
                               IF f = filename THEN [content |-> upload.content, by |-> call]
                               ELSE uploads[f]]
        /\ UNCHANGED <<pc, nlp, punkt, hashseed, request, input_type, text, paper_metadata,
                       attempt, slept, io, ran, outcome, first>>

\* the inner try block up to the result: the file at filepath is read (as a PDF by
\* summarize_paper, as UTF-8 text by the handler) and summarized
Summarize(call) ==
    LET filepath == calls[call].http.filepath
        metadata == calls[call].request.metadata
        there == filepath \in DOMAIN uploads
        read == uploads[filepath].content
        \* filename.lower().endswith('.pdf')
        is_pdf == /\ Len(filepath) >= 4
                  /\ Lower(SubSeq(filepath, Len(filepath) - 3, Len(filepath)))
                        = <<46, 112, 100, 102>>
        result == IF is_pdf
                  THEN IF ~there \/ ~read.pdf THEN Raised("ValueError")
                       ELSE IF ~punkt THEN Raised("LookupError")
                       ELSE ProcessResult(read.lines, metadata, hashseed)
                  ELSE IF ~there THEN Raised("FileNotFoundError")
                       ELSE IF ~read.utf8 THEN Raised("UnicodeDecodeError")
                       ELSE IF ~punkt THEN Raised("LookupError")
                       ELSE ProcessResult(read.lines, metadata, hashseed)
    IN  /\ pc = "idle"
        /\ calls[call].at = "saved"
        /\ calls' = [calls EXCEPT
                       ![call].outcome = result,
                       ![call].at = IF result.kind = "returned" THEN "remove" ELSE "except"]
        /\ UNCHANGED <<pc, nlp, punkt, hashseed, request, input_type, text, paper_metadata,
                       attempt, slept, io, ran, outcome, first, uploads>>

\* os.remove(filepath) after a result, and the 200 response; a file that is no
\* longer there makes os.remove raise, which leads to the except clause
RemoveAndRespond(call) ==
    LET filepath == calls[call].http.filepath
    IN  /\ pc = "idle"
        /\ calls[call].at = "remove"
        /\ IF filepath \in DOMAIN uploads
           THEN /\ uploads' = Remove(uploads, filepath)
                /\ calls' = [calls EXCEPT ![call].at = "done", ![call].http.status = 200]
           ELSE /\ uploads' = uploads
                /\ calls' = [calls EXCEPT ![call].at = "except",
                                          ![call].outcome = Raised("FileNotFoundError")]
        /\ UNCHANGED <<pc, nlp, punkt, hashseed, request, input_type, text, paper_metadata,
                       attempt, slept, io, ran, outcome, first>>

\* except Exception: if os.path.exists(filepath)
CheckExists(call) ==
    /\ pc = "idle"
    /\ calls[call].at = "except"
    /\ calls' = [calls EXCEPT
                   ![call].at = IF calls[call].http.filepath \in DOMAIN uploads
                                THEN "cleanup" ELSE "done",
                   ![call].http.status = IF calls[call].http.filepath \in DOMAIN uploads
                                         THEN @ ELSE 500]
    /\ UNCHANGED <<pc, nlp, punkt, hashseed, request, input_type, text, paper_metadata,
                   attempt, slept, io, ran, outcome, first, uploads>>

\* os.remove(filepath) in the except clause, raise e, and the 500 response of
\* the outer except clause
CleanUp(call) ==
    /\ pc = "idle"
    /\ calls[call].at = "cleanup"
    /\ uploads' = Remove(uploads, calls[call].http.filepath)
    /\ calls' = [calls EXCEPT ![call].at = "done", ![call].http.status = 500]
    /\ UNCHANGED <<pc, nlp, punkt, hashseed, request, input_type, text, paper_metadata,
                   attempt, slept, io, ran, outcome, first>>

NextUpload ==
    \/ \E spacy_found, punkt_found, download_ok \in BOOLEAN, seed \in Seeds :
          Construct(spacy_found, punkt_found, download_ok, seed)
    \/ \E call \in Callers, upload \in UploadedFiles,
          form \in {EmptyDict, [k \in {"title"} |-> V.UserTitle]} :
          Receive(call, upload, form)
    \/ \E call \in Callers : Summarize(call)
    \/ \E call \in Callers : RemoveAndRespond(call)
    \/ \E call \in Callers : CheckExists(call)
    \/ \E call \in Callers : CleanUp(call)

SpecUpload == Init /\ [][NextUpload]_vars
\* the arXiv fetch alone; the retry loop, once entered, keeps running
NextFetch ==
    \/ \E spacy_found, punkt_found, download_ok \in BOOLEAN, seed \in Seeds :
          Construct(spacy_found, punkt_found, download_ok, seed)
    \/ \E req \in {r \in Requests : r.source = ArxivUrl /\ r.type \in {"url", "auto"}} : Call(req)
    \/ EnterArxiv
    \/ \E search_ok, download_ok, manual_ok \in BOOLEAN, txt \in AcquiredTexts :
          ArxivAttempt(search_ok, download_ok, manual_ok, txt)
    \/ \E fallback_ok \in BOOLEAN : ArxivExcept(fallback_ok)
    \/ ProcessPaperText

\* the steps of the retry loop
FetchStep ==
    \/ \E search_ok, download_ok, manual_ok \in BOOLEAN, txt \in AcquiredTexts :
          ArxivAttempt(search_ok, download_ok, manual_ok, txt)
    \/ \E fallback_ok \in BOOLEAN : ArxivExcept(fallback_ok)

SpecFetch == Init /\ [][NextFetch]_vars /\ WF_vars(FetchStep)

-----------------------------------------------------------------------------
(* Properties of the returned report *)

\* C1: every returned report holds at most 5 equations, 10 results, 20 citations,
\* 5 contributions, 3 limitations and 10 glossary entries, however many matches
\* the extractors find.
C1_ListCaps ==
    outcome.kind = "returned" =>
        /\ Len(outcome.json.method.equations) <= EquationCap
        /\ Len(outcome.json.results) <= ResultCap
        /\ Len(outcome.json.citations_used) <= CitationCap
        /\ Len(outcome.json.contributions) <= ContributionCap
        /\ Len(outcome.json.limitations) <= LimitationCap
        /\ Len(outcome.json.glossary) <= GlossaryCap

\* a report for a text with more glossary sentences than the cap, cut to the cap
C1_Witness ==
    /\ outcome.kind = "returned"
    /\ Cardinality({j \in DOMAIN text.lines : text.lines[j].k \in {"gisa", "gcol"}}) > GlossaryCap
    /\ Len(outcome.json.glossary) = GlossaryCap

\* C2, as stated: none of contributions, method.equations, results, limitations,
\* glossary and citations_used is ever an empty sequence in a returned report.
C2_NeverEmpty ==
    outcome.kind = "returned" =>
        /\ outcome.json.contributions # <<>>
        /\ outcome.json.method.equations # <<>>
        /\ outcome.json.results # <<>>
        /\ outcome.json.limitations # <<>>
        /\ outcome.json.glossary # <<>>
        /\ outcome.json.citations_used # <<>>

\* C2, amended: contributions, limitations and glossary are never empty (with no
\* match they are the one-element sentinel); method.equations, results and
\* citations_used have no sentinel and are empty exactly when their extractor
\* finds no match.
C2_SentinelOrEmpty ==
    outcome.kind = "returned" =>
        /\ outcome.json.contributions # <<>>
        /\ outcome.json.limitations # <<>>
        /\ outcome.json.glossary # <<>>
        /\ NotSpecified \in Range(outcome.json.contributions)
              => outcome.json.contributions = <<NotSpecified>>
        /\ NotSpecified \in Range(outcome.json.limitations)
              => outcome.json.limitations = <<NotSpecified>>
        /\ SentinelEntry \in Range(outcome.json.glossary)
              => outcome.json.glossary = <<SentinelEntry>>
        /\ (outcome.json.method.equations = <<>>) <=> (ExtractEquations(text.lines) = <<>>)
        /\ (outcome.json.results = <<>>) <=> (ExtractMetricsAndResults(text.lines) = <<>>)
        /\ (outcome.json.citations_used = <<>>) <=> (ExtractCitations(text.lines) = <<>>)

\* a report for a text that is not empty and in which no extractor matches
C2_Witness ==
    /\ outcome.kind = "returned"
    /\ text.lines # <<>>
    /\ outcome.json.glossary = <<SentinelEntry>>
    /\ outcome.json.contributions = <<NotSpecified>>
    /\ outcome.json.method.equations = <<>>
    /\ outcome.json.results = <<>>
    /\ outcome.json.citations_used = <<>>

\* C3, as stated: the rendered document contains the text of every non-sentinel
\* contribution and limitation, and the term and the definition of every
\* non-sentinel glossary entry of the report (up to 10).
C3_EveryEntryRendered ==
    outcome.kind = "returned" =>
        LET doc == Document(outcome.markdown)
        IN  /\ \A j \in DOMAIN outcome.json.contributions :
                  outcome.json.contributions[j] # NotSpecified
                     => Contains(doc, outcome.json.contributions[j])
            /\ \A j \in DOMAIN outcome.json.limitations :
                  outcome.json.limitations[j] # NotSpecified
                     => Contains(doc, outcome.json.limitations[j])
            /\ \A j \in DOMAIN outcome.json.glossary :
                  outcome.json.glossary[j] # SentinelEntry
                     => /\ Contains(doc, outcome.json.glossary[j].term)
                        /\ Contains(doc, outcome.json.glossary[j].definition)

\* C3, amended: the rendered document holds a bullet with the text of every
\* non-sentinel contribution and limitation, and a bullet with the term and the
\* definition of every non-sentinel entry among the first 5 of the glossary.
C3_ShownEntriesRendered ==
    outcome.kind = "returned" =>
        /\ \A j \in DOMAIN outcome.json.contributions :
              outcome.json.contributions[j] # NotSpecified
                 => (MD.Bullet \o outcome.json.contributions[j]) \in Range(outcome.markdown)
        /\ \A j \in DOMAIN outcome.json.limitations :
              outcome.json.limitations[j] # NotSpecified
                 => (MD.Bullet \o outcome.json.limitations[j]) \in Range(outcome.markdown)
        /\ \A j \in DOMAIN outcome.json.glossary :
              (j <= RenderedGlossary /\ outcome.json.glossary[j].term # NotSpecified)
                 => (MD.TermStart \o outcome.json.glossary[j].term \o MD.TermSep
                     \o outcome.json.glossary[j].definition) \in Range(outcome.markdown)

\* a report with more glossary entries than the document shows
C3_Witness ==
    /\ outcome.kind = "returned"
    /\ Len(outcome.json.glossary) > RenderedGlossary
    /\ outcome.json.glossary[RenderedGlossary].term # NotSpecified

\* C4: a second invocation with the same text and metadata returns the same
\* report and the same document as the first, the order of datasets and
\* setup.baselines included.
C4_Deterministic ==
    (/\ pc = "done"
     /\ input_type \notin {"pdf", "url"}
     /\ first.kind = "returned"
     /\ outcome.kind = "returned")
        => /\ outcome.json = first.json
           /\ outcome.markdown = first.markdown

\* C5: citations_used is in ascending lexicographic order without a duplicate,
\* also when cut to 20 and when one token is matched by several pattern families.
C5_CitationsSorted ==
    outcome.kind = "returned" =>
        \A j \in DOMAIN outcome.json.citations_used :
            j > 1 => StrLess(outcome.json.citations_used[j - 1], outcome.json.citations_used[j])

\* a report cut to 20 citations for a text where two families match one token
C5_Witness ==
    /\ outcome.kind = "returned"
    /\ \E j \in DOMAIN text.lines :
          /\ CitationMatch(2, text.lines[j]) # <<>>
          /\ CitationMatch(2, text.lines[j]) = CitationMatch(3, text.lines[j])
    /\ Len(ExtractCitations(text.lines)) > CitationCap
    /\ Len(outcome.json.citations_used) = CitationCap

-----------------------------------------------------------------------------
(* Properties of the error handling *)

\* C6: when the input text is empty or absent, or input_type is none of pdf, url,
\* text and auto, summarize_paper raises before any extractor has run (looked at
\* where the tokenizer data is installed, so that no other failure interferes).
C6_ValidationFirst ==
    (/\ pc = "done"
     /\ punkt
     /\ \/ request.type \notin {"pdf", "url", "text", "auto"}
        \/ request.source.none
        \/ (input_type = "text" /\ request.source.lines = <<>>))
        => /\ outcome.kind = "raised"
           /\ ran = <<>>

\* C7: for the empty string as text, with input_type 'text' and empty metadata,
\* summarize_paper returns a report whose title, tldr, method.summary and
\* setup.compute are 'Not specified', whose contributions, datasets, baselines and
\* limitations are ['Not specified'] and whose glossary is the sentinel entry
\* (looked at where the tokenizer data is installed).
C7_EmptyTextFallbacks ==
    (/\ pc = "done"
     /\ punkt
     /\ request.source = StrSource(<<>>)
     /\ request.type = "text"
     /\ OrEmpty(request.metadata) = EmptyDict)
        => /\ outcome.kind = "returned"
           /\ outcome.json.title = NotSpecified
           /\ outcome.json.tldr = NotSpecified
           /\ outcome.json.method.summary = NotSpecified
           /\ outcome.json.setup.compute = NotSpecified
           /\ outcome.json.contributions = <<NotSpecified>>
           /\ outcome.json.datasets = <<NotSpecified>>
           /\ outcome.json.setup.baselines = <<NotSpecified>>
           /\ outcome.json.limitations = <<NotSpecified>>
           /\ outcome.json.glossary = <<SentinelEntry>>

\* C8: a step of _process_paper_text that raises does not abort the pipeline:
\* once the first extractor has run, every step runs and a report is returned.
C8_FaultIsolation ==
    (pc = "done" /\ ran # <<>>)
        => /\ outcome.kind = "returned"
           /\ ran = Append(ExtractorSteps, "_generate_markdown")

\* C9: when the spaCy model or the tokenizer data is missing at construction,
\* construction succeeds and no later call on a text fails for the lack of them.
C9_GracefulDegradation ==
    (/\ pc = "done"
     /\ nlp = "None" \/ ~punkt
     /\ ~text.none)
        => outcome.kind = "returned"

\* C10: _fetch_from_arxiv makes at most 3 attempts, sleeps 1 s after the first
\* failed attempt and 2 s after the second and never after the last, never reaches
\* the raise behind the loop, and always ends, by returning or with ValueError.
C10_FetchBounded ==
    /\ [](LET tries == Cardinality({j \in DOMAIN io : io[j] = "arxiv_try"})
          IN  /\ tries <= 3
              /\ slept \in {<<>>, <<1>>, <<1, 2>>}
              /\ Len(slept) = attempt
              /\ Len(slept) <= tries
              /\ tries = 3 => Len(slept) = 2
              /\ pc = "arxiv_except" => tries = attempt + 1
              /\ outcome # Raised("ValueError: loop exhausted")
              /\ (pc = "done" /\ ran = <<>> /\ tries > 0) => outcome = Raised("ValueError"))
    /\ (pc = "arxiv_try") ~> (pc \in {"process", "done"})

\* a fetch whose three attempts and whose abstract fallback all failed
C10_Witness ==
    /\ pc = "done"
    /\ Cardinality({j \in DOMAIN io : io[j] = "arxiv_try"}) = 3
    /\ slept = <<1, 2>>
    /\ outcome = Raised("ValueError")

-----------------------------------------------------------------------------
(* Properties of the acquisition and of the renderer *)

\* C11, as stated: when all 3 attempts of _fetch_from_arxiv have failed,
\* summarize_paper raises ValueError and returns no report (looked at where the
\* tokenizer data is installed).
C11_ExhaustedIsError ==
    (pc = "done" /\ punkt /\ "arxiv_abstract" \in Range(io))
        => outcome = Raised("ValueError")

\* C11, amended: after 3 failed attempts the index is queried once more; when
\* that fails too, ValueError is raised before any extractor runs; when it
\* succeeds, the text handed to _process_paper_text is the fallback text made of
\* the title, the abstract and a note, with the index record's metadata, and the
\* call's outcome is that of _process_paper_text on this text.
C11_AbstractFallback ==
    (pc \in {"process", "done"} /\ "arxiv_abstract" \in Range(io))
        => \/ /\ pc = "done"
              /\ outcome = Raised("ValueError")
              /\ ran = <<>>
              /\ text = NoText
           \/ /\ text = StrText(<<Line("fallback", 0)>>)
              /\ paper_metadata = Merged(ArxivMetadata, request.metadata)
              /\ pc = "done" =>
                    IF punkt
                    THEN outcome = ProcessResult(<<Line("fallback", 0)>>, paper_metadata,
                                                 hashseed)
                    ELSE outcome = Raised("LookupError")

\* a report returned after three failed attempts, built from the fallback text
C11_Witness ==
    /\ pc = "done"
    /\ Cardinality({j \in DOMAIN io : io[j] = "arxiv_try"}) = 3
    /\ "arxiv_abstract" \in Range(io)
    /\ outcome.kind = "returned"
    /\ outcome.json.title = V.PaperTitle

\* the pieces of the document between two pieces of the template
Between(markdown, head, tail) ==
    LET a == CHOOSE j \in DOMAIN markdown : markdown[j] = head
        b == CHOOSE j \in DOMAIN markdown : markdown[j] = tail
    IN  SubSeq(markdown, a + 1, b - 1)

C13_RendererTotal ==
    (pc = "done" /\ ran = <<"_generate_markdown">>) => outcome.kind = "returned"

\* C14: the section map always has at least one entry; it has the key
\* 'full_text' exactly when none of the six section patterns matched, and is then
\* {'full_text': the text}; otherwise its keys are the names whose pattern
\* matched, each recorded once with the text of the pattern's first match: the
\* lines between the first heading of that name that a stop line follows and the
\* first such stop line.
C14_SectionMap ==
    (pc = "done" /\ ran = <<"_extract_sections">>) =>
        LET txt == text.lines
            sections == outcome.value
            closes(n, a, b) == /\ txt[a].k \in SectionHead(n)
                               /\ b >= a + 2 /\ txt[b].k \in SectionStop(n)
            matched == {n \in SectionNames : \E a, b \in DOMAIN txt : closes(n, a, b)}
        IN  /\ DOMAIN sections # {}
            /\ ("full_text" \in DOMAIN sections) <=> matched = {}
            /\ matched = {} => sections = [n \in {"full_text"} |-> Chars(txt)]
            /\ matched # {} => DOMAIN sections = matched
            /\ \A n \in matched :
                  \E a, b \in DOMAIN txt :
                     /\ closes(n, a, b)
                     /\ \A a2, b2 \in DOMAIN txt :
                           closes(n, a2, b2) => a <= a2 /\ (a2 = a => b <= b2)
                     /\ sections[n] = Strip(Chars(SubSeq(txt, a + 1, b - 1)))

\* all six sections found, in a text that holds one of the headings twice
C14_Witness ==
    /\ pc = "done" /\ ran = <<"_extract_sections">>
    /\ DOMAIN outcome.value = SectionNames
    /\ Cardinality({j \in DOMAIN text.lines : text.lines[j].k = "hcon"}) = 2
    /\ outcome.value["conclusion"] = T.hcon \o NL \o T.plain

\* no section found: the map holds the whole text
C14_WitnessFullText ==
    /\ pc = "done" /\ ran = <<"_extract_sections">>
    /\ DOMAIN outcome.value = {"full_text"}
    /\ \E j \in DOMAIN text.lines : text.lines[j].k \in Headings

\* C15: whatever the interleaving of two summarize_paper calls of type 'text'
\* on the shared instance, each finished call gave its caller exactly what
\* _process_paper_text gives for that call's own arguments when it runs alone.
C15_CallsDoNotInterfere ==
    \A call \in Callers :
        calls[call].at = "done" =>
            LET req == calls[call].request
            IN  calls[call].outcome =
                    IF req.source.none THEN Raised("TypeError")
                    ELSE IF ~punkt THEN Raised("LookupError")
                    ELSE ProcessResult(req.source.lines, OrEmpty(req.metadata), hashseed)

\* two calls with different texts, each of which ran while the other was
\* under way, have both returned a report
C15_Witness ==
    /\ \A call \in Callers : /\ calls[call].at = "done"
                             /\ calls[call].overlapped
                             /\ calls[call].outcome.kind = "returned"
    /\ calls[1].request.source # calls[2].request.source
    /\ calls[1].outcome.json.citations_used # calls[2].outcome.json.citations_used

\* the text's only citation markers are "[1]" and "(Smith et al., 2020)"
OnlyOneAndSmithEtAl(txt) ==
    /\ \E j \in DOMAIN txt : txt[j] = Line("cnum", 1)
    /\ \E j \in DOMAIN txt : txt[j] = Line("cetal", 0)
    /\ \A j \in DOMAIN txt :
          (\E p \in 1..3 : CitationMatch(p, txt[j]) # <<>>)
              => txt[j] \in {Line("cnum", 1), Line("cetal", 0)}

\* C16 as stated: for a text whose only citation markers are "[1]" and
\* "(Smith et al., 2020)", citations_used is ["(Smith et al., 2020)", "1"].
C16_ParenthesisedFirst ==
    (pc = "done" /\ outcome.kind = "returned" /\ OnlyOneAndSmithEtAl(text.lines)) =>
        outcome.json.citations_used = << <<40>> \o C.SmithEtAl \o <<41>>, Dec(1) >>

\* C16 as the code has it: for such a text citations_used holds the captured
\* groups, without brackets or parentheses, in ascending order: ["1", "Smith et
\* al., 2020"].
C16_GroupsSorted ==
    (pc = "done" /\ outcome.kind = "returned" /\ OnlyOneAndSmithEtAl(text.lines)) =>
        outcome.json.citations_used = <<Dec(1), C.SmithEtAl>>

\* the report for a text that has the author marker before the numeric one
C16_Witness ==
    /\ pc = "done" /\ outcome.kind = "returned"
    /\ text.lines = <<Line("cetal", 0), Line("cnum", 1)>>
    /\ Len(outcome.json.citations_used) = 2

\* C17: every result of a report has the lower-cased metric name in 'metric',
\* the numeric string in 'value' and 'Not specified' in the three provenance
\* fields; the name and the number are never swapped.
C17_NameThenNumber ==
    (pc = "done" /\ outcome.kind = "returned") =>
        \A j \in DOMAIN outcome.json.results :
            LET r == outcome.json.results[j]
            IN  /\ r.metric \in {Lower(C.accuracy), Lower(C.F1), Lower(C.BLEU), Lower(C.Best)}
                /\ r.value # <<>>
                /\ \A n \in DOMAIN r.value : IsDigit(r.value[n]) \/ r.value[n] = 46
                /\ r.dataset_or_benchmark = NotSpecified
                /\ r.compared_to = NotSpecified
                /\ r.evidence_citation = NotSpecified

\* C18: the glossary holds the definitions found in the text in text order,
\* repeated terms included, cut to the first 10; a 'Term: definition.' match that
\* stands earlier in the text than a 'Term is a ...' match comes earlier in
\* the glossary and is not pushed out by the cut.
C18_GlossaryInTextOrder ==
    (pc = "done" /\ outcome.kind = "returned") =>
        LET txt == text.lines
            matches == Flatten([j \in DOMAIN txt |->
                           GlossaryMatchAt(1, txt, j) \o GlossaryMatchAt(2, txt, j)])
            entries == [j \in DOMAIN matches |-> GlossaryEntry(matches[j])]
        IN  entries # <<>> => outcome.json.glossary = Take(entries, GlossaryCap)

\* C19: the tldr of a report is made from the 'abstract' section when the
\* section map has one and from the first 1000 characters of the text otherwise;
\* it is the first three sentences of that slice joined by a space when the slice
\* has at least three sentences, and the first 300 characters of the slice
\* otherwise, so that it then never exceeds 300 characters.
C19_TldrSynthesis ==
    (pc = "done" /\ outcome.kind = "returned") =>
        LET sections == ExtractSections(text.lines)
            slice == IF "abstract" \in DOMAIN sections THEN sections["abstract"]
                     ELSE SubSeq(Chars(text.lines), 1,
                                 IF Len(Chars(text.lines)) < TldrSourceChars
                                 THEN Len(Chars(text.lines)) ELSE TldrSourceChars)
            sentences == SentTokenize(slice)
            tldr == outcome.json.tldr
        IN  IF Len(sentences) >= SummarySentences
            THEN tldr = sentences[1] \o SP \o sentences[2] \o SP \o sentences[3]
            ELSE /\ Len(tldr) <= TldrFallbackChars
                 /\ tldr = [j \in 1..Len(tldr) |-> slice[j]]
                 /\ Len(tldr) = TldrFallbackChars \/ Len(tldr) = Len(slice)

\* a text of more than 1000 characters without an abstract section that has
\* three sentences, only one of which ends within the first 1000 characters:
\* the tldr is the first 300 characters
C19_Witness ==
    /\ pc = "done" /\ outcome.kind = "returned"
    /\ "abstract" \notin DOMAIN ExtractSections(text.lines)
    /\ Len(Chars(text.lines)) > TldrSourceChars
    /\ Len(SentTokenize(Chars(text.lines))) >= SummarySentences
    /\ Len(outcome.json.tldr) = TldrFallbackChars

\* a text with an abstract section of three sentences
C19_WitnessAbstract ==
    /\ pc = "done" /\ outcome.kind = "returned"
    /\ "abstract" \in DOMAIN ExtractSections(text.lines)
    /\ Len(SentTokenize(ExtractSections(text.lines)["abstract"])) >= SummarySentences
    /\ outcome.json.tldr # <<>>

\* C20: when /api/summarize responds, a file the request saved in the upload
\* folder is no longer there, after a summary (200) as after an exception (500);
\* a request rejected with 400 has saved no file.
C20_UploadRemoved ==
    \A call \in Callers :
        calls[call].http.status # 0 =>
            LET h == calls[call].http
            IN  /\ h.status = 400 => ~h.saved
                /\ h.status \in {200, 500} => h.saved
                /\ ~\E f \in DOMAIN uploads : uploads[f].by = call

\* one request answered 200 and one answered 500 after UnicodeDecodeError, both
\* having saved a file, and the upload folder is empty
C20_Witness ==
    /\ calls[1].http.status = 200 /\ calls[1].http.saved
    /\ calls[2].http.status = 500 /\ calls[2].http.saved
    /\ calls[2].outcome = Raised("UnicodeDecodeError")
    /\ calls[1].http.filepath # calls[2].http.filepath
    /\ uploads = <<>>

\* a request rejected for its extension
C20_WitnessRejected ==
    /\ calls[1].http.status = 400
    /\ calls[1].http.upload.file /\ calls[1].http.upload.filename # <<>>
    /\ calls[2].at = "saved"
    /\ DOMAIN uploads = {calls[2].http.filepath}

\* what the upload handler gets for a request's own upload when no other
\* request touches the folder
OwnResult(call) ==
    LET filepath == calls[call].http.filepath
        own == calls[call].http.upload.content
        metadata == calls[call].request.metadata
        is_pdf == /\ Len(filepath) >= 4
                  /\ Lower(SubSeq(filepath, Len(filepath) - 3, Len(filepath)))
                        = <<46, 112, 100, 102>>
    IN  IF is_pdf /\ ~own.pdf THEN Raised("ValueError")
        ELSE IF ~is_pdf /\ ~own.utf8 THEN Raised("UnicodeDecodeError")
        ELSE IF ~punkt THEN Raised("LookupError")
        ELSE ProcessResult(own.lines, metadata, hashseed)

\* C21: of two concurrent /api/summarize requests that upload different
\* contents under the same sanitized filename, each one that has responded
\* summarized exactly the bytes it uploaded: its result, and with it its status,
\* is what it gets for its own upload, and no clean-up of the other request took
\* its file away.
C21_UploadsDoNotInterfere ==
    \A call \in Callers :
        \A other \in Callers \ {call} :
            (/\ calls[call].http.status \in {200, 500}
             /\ calls[other].http.saved
             /\ calls[other].http.filepath = calls[call].http.filepath
             /\ calls[other].http.upload.content # calls[call].http.upload.content)
                => /\ calls[call].outcome = OwnResult(call)
                   /\ calls[call].http.status =
                          IF OwnResult(call).kind = "returned" THEN 200 ELSE 500

\* C22: the metadata of a returned report is, for input type 'url', the fetched
\* metadata overridden key by key by the caller's (the caller's value on every
\* key the caller gave, the fetched value on the others, no further key), and
\* for 'pdf' and 'text' exactly the caller's metadata, or the empty mapping when
\* none was given; the pipeline changes no key: the returned 'metadata' is the
\* mapping the title was taken from and the document was rendered with.
C22_MetadataMerge ==
    (pc = "done" /\ outcome.kind = "returned" /\ input_type \in {"url", "pdf", "text"}) =>
        LET used == outcome.metadata
            given == IF request.metadata.none THEN EmptyDict ELSE request.metadata.d
            fetchable == IF request.source.arxiv THEN {ArxivMetadata} ELSE PageMetadatas
        IN  /\ input_type \in {"pdf", "text"} => used = given
            /\ input_type = "url" =>
                  \E fetched \in fetchable :
                     /\ DOMAIN used = DOMAIN fetched \cup DOMAIN given
                     /\ \A k \in DOMAIN given : used[k] = given[k]
                     /\ \A k \in DOMAIN fetched \ DOMAIN given : used[k] = fetched[k]
            /\ used = paper_metadata
            /\ outcome.json.title = IF "title" \in DOMAIN used THEN used["title"]
                                    ELSE NotSpecified
            /\ outcome.markdown = GenerateMarkdown(outcome.json, used)

\* a report for an arXiv URL whose caller gave a title and a model size: the
\* caller's title replaced the fetched one, the fetched authors are kept
C22_Witness ==
    /\ pc = "done" /\ outcome.kind = "returned" /\ input_type = "url"
    /\ request.source.arxiv
    /\ ~request.metadata.none /\ request.metadata.d # EmptyDict
    /\ outcome.metadata["title"] = V.UserTitle
    /\ outcome.metadata["title"] # ArxivMetadata["title"]
    /\ outcome.metadata["authors"] = V.PaperAuthors
    /\ "model_sizes" \in DOMAIN outcome.metadata

\* a report for a PDF whose caller gave no metadata
C22_WitnessPdf ==
    /\ pc = "done" /\ outcome.kind = "returned" /\ input_type = "pdf"
    /\ request.metadata.none
    /\ outcome.metadata = EmptyDict
    /\ "pdf_read" \in Range(io)

\* C23: with input_type 'text' the input string is summarized as it is, no
\* acquisition step (PDF read, URL fetch, arXiv query) is executed and the call
\* returns the dict with 'markdown', 'json' and 'metadata'; with 'auto' a source
\* that starts with http:// or https:// is fetched as a URL, any other source
\* that ends with '.pdf' is read as a PDF, and any other is the text itself, so
\* that the steps of one acquisition branch only are executed.
C23_InputDispatch ==
    (pc = "done" /\ ~request.source.none) =>
        /\ request.type = "text" =>
              /\ io = <<>>
              /\ outcome.kind = "returned"
              /\ outcome = ProcessResult(request.source.lines, OrEmpty(request.metadata),
                                         hashseed)
        /\ request.type = "auto" =>
              /\ input_type = IF request.source.http THEN "url"
                              ELSE IF request.source.pdf THEN "pdf"
                              ELSE "text"
              /\ input_type = "url" =>
                    /\ io # <<>>
                    /\ Range(io) \subseteq {"http_get", "arxiv_try", "arxiv_abstract"}
              /\ input_type = "pdf" => io = <<"pdf_read">>
              /\ input_type = "text" => io = <<>>

=============================================================================
